---- MODULE Spec2Model ----
(***************************************************************************)
(* A model of the pymelsec MC-protocol client (Type3E): the connection     *)
(* state, the access options, the value codec, the request builders and    *)
(* the command methods, with the PLC and the TCP transport as the          *)
(* environment.                                                            *)
(*                                                                         *)
(* type3e.py refers to the data-type symbols as const.DT.sWORD / sDWORD /  *)
(* uWORD / uDWORD while constants.py spells them SWORD / SDWORD / UWORD /  *)
(* UDWORD; the model resolves each name to the struct symbol it stands    *)
(* for ('h', 'i', 'H', 'I').                                               *)
(***************************************************************************)
EXTENDS Integers, Sequences, FiniteSets, TLC

VARIABLES
    plc_type,        \* Type3E.plc_type, fixed at construction
    comm_type,       \* Type3E.comm_type
    wordsize,        \* Type3E._wordsize
    network,         \* Type3E.network        (a Python value: int or bytes)
    pc,              \* Type3E.pc
    dest_moduleio,   \* Type3E.dest_moduleio
    dest_modulesta,  \* Type3E.dest_modulesta
    timer,           \* Type3E.timer          (quarter seconds)
    sock_timeout,    \* Type3E.sock_timeout   (seconds)
    is_connected,    \* Type3E._is_connected
    ip,              \* Type3E._ip
    port,            \* Type3E._port
    sock,            \* Type3E._sock: the current socket object
    rx,              \* bytes waiting in the socket's receive buffer, as whole responses
    calc,            \* a run of a pure function of the codec: its input and its results
    last             \* the call that just returned: its name, arguments, requests,
                     \* receives and outcome; "idle" once the caller has taken it

vars == <<plc_type, comm_type, wordsize, network, pc, dest_moduleio, dest_modulesta,
          timer, sock_timeout, is_connected, ip, port, sock, rx, calc, last>>

cfgvars == <<plc_type, comm_type, wordsize, network, pc, dest_moduleio, dest_modulesta,
             timer, sock_timeout>>

connvars == <<is_connected, ip, port, sock>>

----------------------------------------------------------------------------
(* Bounds of the model *)

MaxTags == 2        \* length of a tag list given to read(tags) / write(tags)
MaxBits == 4        \* length of a bit sequence given to the bit packer
MaxPayload == 3     \* length of a request payload given to the frame builders

----------------------------------------------------------------------------
(* constants.py *)

Q_SERIES   == "Q"
L_SERIES   == "L"
QnA_SERIES == "QnA"
iQL_SERIES == "iQ-L"
iQR_SERIES == "iQ-R"
Series == {Q_SERIES, L_SERIES, QnA_SERIES, iQL_SERIES, iQR_SERIES}

COMMTYPE_BINARY == "binary"
COMMTYPE_ASCII  == "ascii"

BATCH_READ    == 1025      \* 0x0401
BATCH_WRITE   == 5121      \* 0x1401
RANDOM_READ   == 1027      \* 0x0403
RANDOM_WRITE  == 5122      \* 0x1402
REMOTE_RESET  == 4102      \* 0x1006
REMOTE_UNLOCK == 5680      \* 0x1630
REMOTE_LOCK   == 5681      \* 0x1631
LOOPBACK_TEST == 1561      \* 0x0619

DT_BIT    == "b"
DT_SWORD  == "h"
DT_UWORD  == "H"
DT_SDWORD == "i"
DT_UDWORD == "I"
DT_FLOAT  == "f"
DT_DOUBLE == "d"
DT_SLWORD == "q"
DT_ULWORD == "Q"

\* DT.get_dt_size: 0 stands for the DataTypeError
get_dt_size(data_type) ==
    CASE data_type \in {"b", "BIT", "h", "SWORD", "H", "UWORD"} -> 2
      [] data_type \in {"i", "SDWORD", "I", "UDWORD", "f", "FLOAT"} -> 4
      [] data_type \in {"d", "DOUBLE", "q", "SLWORD", "Q", "ULWORD"} -> 8
      [] OTHER -> 0

\* DeviceConstants.get_binary_device_code: <<code, base>>, code 0 stands for
\* the DeviceCodeError
get_binary_device_code(series, device_name) ==
    CASE device_name = "SM"  -> <<145, 10>>
      [] device_name = "SD"  -> <<169, 10>>
      [] device_name = "X"   -> <<156, 16>>
      [] device_name = "Y"   -> <<157, 16>>
      [] device_name = "M"   -> <<144, 10>>
      [] device_name = "L"   -> <<146, 10>>
      [] device_name = "F"   -> <<147, 10>>
      [] device_name = "V"   -> <<148, 10>>
      [] device_name = "B"   -> <<160, 16>>
      [] device_name = "D"   -> <<168, 10>>
      [] device_name = "W"   -> <<180, 16>>
      [] device_name = "TS"  -> <<193, 10>>
      [] device_name = "TC"  -> <<192, 10>>
      [] device_name = "TN"  -> <<194, 10>>
      [] device_name = "STS" -> <<199, 10>>
      [] device_name = "STC" -> <<198, 10>>
      [] device_name = "STN" -> <<200, 10>>
      [] device_name = "CS"  -> <<196, 10>>
      [] device_name = "CC"  -> <<195, 10>>
      [] device_name = "CN"  -> <<197, 10>>
      [] device_name = "SB"  -> <<161, 16>>
      [] device_name = "SW"  -> <<181, 16>>
      [] device_name = "DX"  -> <<162, 16>>
      [] device_name = "DY"  -> <<163, 16>>
      [] device_name = "R"   -> <<175, 10>>
      [] device_name = "ZR"  -> <<176, 16>>
      [] device_name = "LTS"  /\ series = iQR_SERIES -> <<81, 10>>
      [] device_name = "LTC"  /\ series = iQR_SERIES -> <<80, 10>>
      [] device_name = "LTN"  /\ series = iQR_SERIES -> <<82, 10>>
      [] device_name = "LSTS" /\ series = iQR_SERIES -> <<89, 10>>
      [] device_name = "LSTN" /\ series = iQR_SERIES -> <<90, 10>>
      [] device_name = "LCS"  /\ series = iQR_SERIES -> <<85, 10>>
      [] device_name = "LCC"  /\ series = iQR_SERIES -> <<84, 10>>
      [] device_name = "LCN"  /\ series = iQR_SERIES -> <<86, 10>>
      [] device_name = "LZ"   /\ series = iQR_SERIES -> <<98, 10>>
      [] device_name = "RD"   /\ series = iQR_SERIES -> <<44, 10>>
      [] OTHER -> <<0, 10>>

----------------------------------------------------------------------------
(* Python values: an int, or the bytes object struct.pack made of an int *)

PyInt(n)   == [t |-> "int", v |-> n]
PyBytes(n) == [t |-> "bytes", v |-> n]

----------------------------------------------------------------------------
(* Value codec: Type3E._encode_value *)

Upper(m) ==
    CASE m = "b" -> "B" [] m = "h" -> "H" [] m = "i" -> "I" [] m = "q" -> "Q"
      [] m = "f" -> "F" [] m = "d" -> "D" [] m = "long" -> "LONG" [] OTHER -> m

Lower(m) ==
    CASE m = "B" -> "b" [] m = "H" -> "h" [] m = "I" -> "i" [] m = "Q" -> "q"
      [] OTHER -> m

\* struct: the width in bytes of an integer format character, 0 for anything else
StructWidth(m) ==
    CASE m \in {"b", "B"} -> 1 [] m \in {"h", "H"} -> 2 [] m \in {"i", "I"} -> 4 [] OTHER -> 0

\* a range check that lets every integer through
StructInRange_any(m, v) ==
    m \in {"B", "b", "H", "h", "I", "i"}

\* struct.pack range check of an integer format character
StructInRange(m, v) ==
    CASE m = "B" -> 0 <= v /\ v <= 255
      [] m = "b" -> -128 <= v /\ v <= 127
      [] m = "H" -> 0 <= v /\ v <= 65535
      [] m = "h" -> -32768 <= v /\ v <= 32767
      [] m = "I" -> 0 <= v
      [] m = "i" -> TRUE
      [] OTHER -> FALSE

\* little-endian two's complement bytes of v, w bytes wide
LEBytes(v, w) == [k \in 1..w |-> (v \div (256 ^ (k - 1))) % 256]

\* _encode_value: ok = FALSE stands for ValueError("Exceeded device value range").
\* In ASCII mode the packed bytes object is given to an integer format
\* specification (f'{value_byte:04x}'), which raises for every b/h/i value.
encode_value(comm, value, mode, isSigned) ==
    LET m == IF isSigned THEN mode ELSE Upper(mode)
        packed == value.t = "int" /\ StructWidth(m) > 0 /\ StructInRange(m, value.v)
    IN  IF ~packed
          THEN [ok |-> FALSE, bytes |-> <<>>]
          ELSE IF comm # COMMTYPE_BINARY /\ Lower(m) \in {DT_BIT, DT_SWORD, DT_SDWORD}
                 THEN [ok |-> FALSE, bytes |-> <<>>]
                 ELSE [ok |-> TRUE, bytes |-> LEBytes(value.v, StructWidth(m))]

\* _build_command_data
build_command_data(comm, command, subcommand) ==
    LET c == encode_value(comm, PyInt(command), DT_SWORD, FALSE)
        s == encode_value(comm, PyInt(subcommand), DT_SWORD, FALSE)
    IN  IF c.ok /\ s.ok
          THEN [ok |-> TRUE, err |-> "none", bytes |-> c.bytes \o s.bytes]
          ELSE [ok |-> FALSE, err |-> "ValueError", bytes |-> <<>>]

----------------------------------------------------------------------------
(* Device strings: the device type letters and the index text, a sequence  *)
(* of digit characters 0..15 (10..15 are the letters A..F)                 *)

Dev(type, idx) == [type |-> type, idx |-> idx]

RECURSIVE ParseDigits(_, _)
\* int(text, base) for a text of digits all below the base
ParseDigits(ds, base) ==
    IF ds = <<>> THEN 0
    ELSE ParseDigits(SubSeq(ds, 1, Len(ds) - 1), base) * base + ds[Len(ds)]

RECURSIVE ToDec(_)
\* str(n) for n >= 0: the decimal digits of n
ToDec(n) == IF n < 10 THEN <<n>> ELSE ToDec(n \div 10) \o <<n % 10>>

RECURSIVE DecRun(_)
\* the leading run of decimal digits of a text: re.search(r"\d+", ...)
DecRun(ds) ==
    IF ds = <<>> \/ ds[1] >= 10 THEN <<>> ELSE <<ds[1]>> \o DecRun(Tail(ds))

\* _build_device_data, binary branch; in ASCII mode the device number is
\* turned into a str and then given to an integer format specification
\* (f'{device_number:06x}'), which raises ValueError.
build_device_data(series, comm, device) ==
    LET cb == get_binary_device_code(series, device.type)
        letterFirst == device.idx # <<>> /\ device.idx[1] >= 10
        fail(e) == [ok |-> FALSE, err |-> e, code |-> 0, num |-> 0, bytes |-> <<>>]
    IN  IF letterFirst \/ cb[1] = 0 THEN fail("DeviceCodeError")
        ELSE IF device.idx = <<>> THEN fail("ValueError")
        ELSE IF \E k \in 1..Len(device.idx) : device.idx[k] >= cb[2] THEN fail("ValueError")
        ELSE IF comm # COMMTYPE_BINARY THEN fail("ValueError")
        ELSE LET num == ParseDigits(device.idx, cb[2])
             IN  [ok |-> TRUE, err |-> "none", code |-> cb[1], num |-> num,
                  bytes |-> IF series = iQR_SERIES
                              THEN LEBytes(num, 4) \o LEBytes(cb[1], 2)
                              ELSE LEBytes(num, 3) \o <<cb[1]>>]

----------------------------------------------------------------------------
(* Frame builder: Type3E._build_send_data *)

SUBHEADER_3E == 20480     \* 0x5000

build_send_data(request_data) ==
    LET n  == encode_value(comm_type, network, DT_BIT, FALSE)
        p  == encode_value(comm_type, pc, DT_BIT, FALSE)
        io == encode_value(comm_type, dest_moduleio, DT_SWORD, FALSE)
        st == encode_value(comm_type, dest_modulesta, DT_BIT, FALSE)
        ln == encode_value(comm_type, PyInt(wordsize + Len(request_data)), DT_SWORD, FALSE)
        tm == encode_value(comm_type, timer, DT_SWORD, FALSE)
    IN  IF n.ok /\ p.ok /\ io.ok /\ st.ok /\ ln.ok /\ tm.ok
          THEN [ok |-> TRUE,
                bytes |-> <<SUBHEADER_3E \div 256, SUBHEADER_3E % 256>> \o n.bytes \o p.bytes
                          \o io.bytes \o st.bytes \o ln.bytes \o tm.bytes \o request_data]
          ELSE [ok |-> FALSE, bytes |-> <<>>]

----------------------------------------------------------------------------
(* Frame builder of the 4E client: Type4E._build_send_data *)

SUBHEADER_4E == 21504     \* 0x5400

\* the 4E frame with the serial number put behind the reserved bytes
build_send_data_4e_swapped(request_data, subheader_serial) ==
    LET f  == build_send_data(request_data)
        sr == encode_value(comm_type, subheader_serial, DT_SWORD, FALSE)
        z  == encode_value(comm_type, PyInt(0), DT_SWORD, FALSE)
    IN  IF f.ok /\ sr.ok /\ z.ok
          THEN [ok |-> TRUE,
                bytes |-> <<SUBHEADER_4E \div 256, SUBHEADER_4E % 256>> \o z.bytes \o sr.bytes
                          \o SubSeq(f.bytes, 3, Len(f.bytes))]
          ELSE [ok |-> FALSE, bytes |-> <<>>]

build_send_data_4e(request_data, subheader_serial) ==
    LET sr == encode_value(comm_type, subheader_serial, DT_SWORD, FALSE)
        z  == encode_value(comm_type, PyInt(0), DT_SWORD, FALSE)
        n  == encode_value(comm_type, network, DT_BIT, FALSE)
        p  == encode_value(comm_type, pc, DT_BIT, FALSE)
        io == encode_value(comm_type, dest_moduleio, DT_SWORD, FALSE)
        st == encode_value(comm_type, dest_modulesta, DT_BIT, FALSE)
        ln == encode_value(comm_type, PyInt(wordsize + Len(request_data)), DT_SWORD, FALSE)
        tm == encode_value(comm_type, timer, DT_SWORD, FALSE)
    IN  IF sr.ok /\ z.ok /\ n.ok /\ p.ok /\ io.ok /\ st.ok /\ ln.ok /\ tm.ok
          THEN [ok |-> TRUE,
                bytes |-> <<SUBHEADER_4E \div 256, SUBHEADER_4E % 256>> \o sr.bytes \o z.bytes
                          \o n.bytes \o p.bytes \o io.bytes \o st.bytes \o ln.bytes
                          \o tm.bytes \o request_data]
          ELSE [ok |-> FALSE, bytes |-> <<>>]

----------------------------------------------------------------------------
(* Value codec: Type3E._decode_value of one 16-bit word of a response.     *)
(* ok = FALSE stands for ValueError("Could not decode byte to value"): the *)
(* slice is shorter than the type, or, in ASCII mode, bytes.fromhex is     *)
(* given a bytes object.                                                   *)

decode_word(comm, words, k, isSigned) ==
    IF comm # COMMTYPE_BINARY \/ k > Len(words)
      THEN [ok |-> FALSE, v |-> 0]
      ELSE [ok |-> TRUE,
            v |-> IF isSigned /\ words[k] >= 32768 THEN words[k] - 65536 ELSE words[k]]

\* Type3E._decode_value of a bytes object: struct.unpack needs exactly the
\* width of the format; in ASCII mode bytes.fromhex is given a bytes object
\* and raises.  ok = FALSE stands for ValueError.
decode_value(comm, byte_array, mode, isSigned) ==
    LET m == IF isSigned THEN mode ELSE Upper(mode)
        w == StructWidth(m)
        top == byte_array[w]
        low == IF w = 1 THEN 0
               ELSE IF w = 2 THEN byte_array[1]
               ELSE byte_array[1] + 256 * byte_array[2] + 65536 * byte_array[3]
    IN  IF comm # COMMTYPE_BINARY \/ w = 0 \/ Len(byte_array) # w
          THEN [ok |-> FALSE, v |-> 0]
          ELSE [ok |-> TRUE,
                v |-> low + (256 ^ (w - 1))
                            * (IF m = Lower(m) /\ top >= 128 THEN top - 256 ELSE top)]

----------------------------------------------------------------------------
(* Bit packing: batch_write_bits (request side), batch_read_bits (response) *)

\* the data bytes batch_write_bits appends for a list of 0/1 values
pack_bits(comm, values) ==
    IF comm = COMMTYPE_BINARY
      THEN [j \in 1..((Len(values) + 1) \div 2) |->
               values[2 * j - 1] * 16 + (IF 2 * j <= Len(values) THEN values[2 * j] ELSE 0)]
      ELSE [i \in 1..Len(values) |-> 48 + values[i]]

\* the decoding with the two nibbles of a byte taken the other way round
unpack_bits_swapped(comm, data, read_size) ==
    IF comm = COMMTYPE_BINARY
      THEN [i \in 1..read_size |->
               LET value == data[((i - 1) \div 2) + 1]
               IN  IF (i - 1) % 2 = 0 THEN value % 2 ELSE (value \div 16) % 2]
      ELSE [i \in 1..read_size |-> data[i] - 48]

\* the list batch_read_bits decodes from the data bytes of a response
unpack_bits(comm, data, read_size) ==
    IF comm = COMMTYPE_BINARY
      THEN [i \in 1..read_size |->
               LET value == data[((i - 1) \div 2) + 1]
               IN  IF (i - 1) % 2 = 0 THEN (value \div 16) % 2 ELSE value % 2]
      ELSE [i \in 1..read_size |-> data[i] - 48]

----------------------------------------------------------------------------
(* The transport and the PLC.  A response is [behind, status, data]: how   *)
(* many requests were sent after the request it answers (0: it answers the *)
(* request sent last), its status word and its data words.  recv returns   *)
(* whatever the receive buffer holds; the client parses it at the fixed    *)
(* offsets, so it sees the first response of the buffer.                   *)

MC_ERR == 49238            \* 0xC056, a non-zero status word

\* what the PLC and the network do with one request: answer with status 0,
\* answer with a non-zero status, answer after the socket timeout, not answer
Kinds == {"ok", "nz", "late", "lost"}

\* the words the PLC holds, returned by every word read
PlcWords == <<2024, 5, 17, 13, 45, 59, 4, 65535>>

\* a call in progress: the receive buffer, the requests written and the
\* receives done by this call, the exception raised (if any) and the value of
\* the last step
Cx0 == [rx |-> rx, reqs |-> <<>>, recvs |-> <<>>, raised |-> "none", rxerr |-> "none",
        ret |-> <<>>]

Raise(cx, e) == IF cx.raised = "none" THEN [cx EXCEPT !.raised = e] ELSE cx

Req(cmd, sub, devs, n, vals) ==
    [cmd |-> cmd, sub |-> sub, devs |-> devs, n |-> n, vals |-> vals, frame |-> <<>>,
     unread |-> 0]

\* the data words the PLC returns for a request
ReplyData(req) ==
    IF req.cmd \in {BATCH_READ, RANDOM_READ}
      THEN [k \in 1..req.n |-> PlcWords[((k - 1) % 8) + 1]]
    ELSE IF req.cmd = LOOPBACK_TEST
      THEN LEBytes(req.n, 2) \o req.vals       \* the bytes of the length and of the echo
      ELSE <<>>

\* a loopback answer that is one byte short of the request
ShortEcho(req) == LEBytes(req.n - 1, 2) \o SubSeq(req.vals, 1, Len(req.vals) - 1)

\* a short loopback answer whose last byte arrives as 0xFF
GarbledEcho(req) ==
    [k \in 1..Len(ShortEcho(req)) |->
        IF k > 2 /\ k = Len(ShortEcho(req)) THEN 255 ELSE ShortEcho(req)[k]]

Reply(req, kind) ==
    [behind |-> 0, status |-> IF kind = "nz" THEN MC_ERR ELSE 0,
     data |-> IF kind = "nz" THEN <<>>
              ELSE IF kind = "short" /\ req.cmd = LOOPBACK_TEST THEN ShortEcho(req)
              ELSE IF kind = "garbled" /\ req.cmd = LOOPBACK_TEST THEN GarbledEcho(req)
              ELSE ReplyData(req)]

\* a _send that writes whatever the connected flag says
send_unguarded(cx, req) ==
    IF cx.raised # "none" THEN cx
    ELSE [cx EXCEPT !.reqs = Append(@, [req EXCEPT !.unread = Len(cx.rx)]),
                    !.rx = [k \in 1..Len(cx.rx) |-> [cx.rx[k] EXCEPT !.behind = @ + 1]]]

\* Type3E._send; every response still in the buffer falls one request behind.
\* unread: the responses in the receive buffer when the request is written.
send(cx, req) ==
    IF cx.raised # "none" THEN cx
    ELSE IF ~is_connected THEN Raise(cx, "NotConnected")
    ELSE IF sock.state # "conn" THEN Raise(cx, "OSError")
    ELSE [cx EXCEPT !.reqs = Append(@, [req EXCEPT !.unread = Len(cx.rx)]),
                    !.rx = [k \in 1..Len(cx.rx) |-> [cx.rx[k] EXCEPT !.behind = @ + 1]]]

\* Type3E._recv, for the request just sent
recv(cx, kind) ==
    IF cx.raised # "none" THEN cx
    ELSE LET reply == Reply(cx.reqs[Len(cx.reqs)], kind)
         IN  IF cx.rx # <<>>
               THEN [cx EXCEPT !.ret = Head(cx.rx),
                               !.recvs = Append(@, Head(cx.rx)),
                               !.rx = IF kind = "lost" THEN <<>> ELSE <<reply>>]
               ELSE IF kind \in {"ok", "nz", "short", "garbled"}
                      THEN [cx EXCEPT !.ret = reply, !.recvs = Append(@, reply)]
                      ELSE [cx EXCEPT !.raised = "timeout", !.rxerr = "timeout",
                                      !.rx = IF kind = "late" THEN <<reply>> ELSE <<>>]

\* Type3E._check_mc_error
check_mc_error(cx, status) ==
    IF status = 0 THEN cx ELSE [cx EXCEPT !.raised = "MCError", !.rxerr = "MCError"]

\* Type3E._check_command_response
check_command_response(cx) ==
    IF cx.raised # "none" THEN cx ELSE check_mc_error(cx, cx.ret.status)

----------------------------------------------------------------------------
(* Request pieces: each is [ok, err, bytes]; the first failing piece       *)
(* raises and nothing is sent                                              *)

Enc(value, mode, isSigned) ==
    LET e == encode_value(comm_type, value, mode, isSigned)
    IN  [ok |-> e.ok, err |-> IF e.ok THEN "none" ELSE "ValueError", bytes |-> e.bytes]

Cmd(command, subcommand) == build_command_data(comm_type, command, subcommand)

DevPiece(device) ==
    LET d == build_device_data(plc_type, comm_type, device)
    IN  [ok |-> d.ok, err |-> d.err, bytes |-> d.bytes]

Raw(bytes) == [ok |-> TRUE, err |-> "none", bytes |-> bytes]

\* one statement after another: v is evaluated, then F of its value
Bind(v, F(_)) == CHOOSE r \in { F(x) : x \in {v} } : TRUE

RECURSIVE JoinBytes(_, _)
JoinBytes(ps, k) == IF k > Len(ps) THEN <<>> ELSE ps[k].bytes \o JoinBytes(ps, k + 1)

\* request_data += piece, for each piece in turn; the first piece that
\* raises ends the call
Join(pieces) ==
    Bind(pieces, LAMBDA ps :
        LET bad == { k \in 1..Len(ps) : ~ps[k].ok }
        IN  IF bad = {} THEN Raw(JoinBytes(ps, 1))
            ELSE ps[CHOOSE k \in bad : \A m \in bad : k <= m])

DevRef(device) ==
    LET d == build_device_data(plc_type, comm_type, device)
    IN  [code |-> d.code, num |-> d.num]

\* build the frame, send it, receive and check the status word
Exchange(cx, pieces, req, out) ==
    IF cx.raised # "none" THEN cx
    ELSE Bind(Join(pieces), LAMBDA j :
         IF ~j.ok THEN Raise(cx, j.err)
         ELSE Bind(build_send_data(j.bytes), LAMBDA f :
              IF ~f.ok THEN Raise(cx, "ValueError")
              ELSE Bind(send(cx, [req EXCEPT !.frame = f.bytes]), LAMBDA s :
                   Bind(recv(s, out), LAMBDA r : check_command_response(r)))))

----------------------------------------------------------------------------
(* Command layer: batch commands *)

WordSub == IF plc_type = iQR_SERIES THEN 2 ELSE 0      \* SubCommands.TWO / ZERO
BitSub  == IF plc_type = iQR_SERIES THEN 3 ELSE 1      \* SubCommands.THREE / ONE

\* the pieces of a list of values, each encoded as a signed value of one mode
EncAll(values, mode) == [k \in 1..Len(values) |-> Enc(PyInt(values[k]), mode, TRUE)]

\* Type3E.batch_read_words (decode = True)
batch_read_words(cx, ref_device, read_size, out) ==
    Bind(Exchange(cx,
             <<Cmd(BATCH_READ, WordSub), DevPiece(ref_device),
               Enc(PyInt(read_size), DT_SWORD, FALSE)>>,
             Req(BATCH_READ, WordSub, <<DevRef(ref_device)>>, read_size, <<>>), out),
         LAMBDA c :
             LET dec(k) == decode_word(comm_type, c.ret.data, k, TRUE)
             IN  IF c.raised # "none" THEN c
                 ELSE IF \E k \in 1..read_size : ~dec(k).ok THEN Raise(c, "ValueError")
                 ELSE [c EXCEPT !.ret = [k \in 1..read_size |-> dec(k).v]])

\* Type3E.batch_write_words
batch_write_words(cx, ref_device, values, out) ==
    Bind(Exchange(cx,
             <<Cmd(BATCH_WRITE, WordSub), DevPiece(ref_device),
               Enc(PyInt(Len(values)), DT_SWORD, FALSE)>> \o EncAll(values, DT_SWORD),
             Req(BATCH_WRITE, WordSub, <<DevRef(ref_device)>>, Len(values), values), out),
         LAMBDA c : IF c.raised # "none" THEN c ELSE [c EXCEPT !.ret = <<>>])

\* Type3E.batch_write_bits
batch_write_bits(cx, ref_device, values, out) ==
    IF cx.raised # "none" THEN cx
    ELSE IF \E k \in 1..Len(values) : values[k] \notin {0, 1} THEN Raise(cx, "ValueError")
    ELSE Bind(Exchange(cx,
                  <<Cmd(BATCH_WRITE, BitSub), DevPiece(ref_device),
                    Enc(PyInt(Len(values)), DT_SWORD, FALSE),
                    Raw(pack_bits(comm_type, values))>>,
                  Req(BATCH_WRITE, BitSub, <<DevRef(ref_device)>>, Len(values), values), out),
              LAMBDA c : IF c.raised # "none" THEN c ELSE [c EXCEPT !.ret = <<>>])

\* Type3E.random_write_bits
random_write_bits(cx, bit_devices, values, out) ==
    IF cx.raised # "none" THEN cx
    ELSE IF Len(bit_devices) # Len(values) THEN Raise(cx, "ValueError")
    ELSE IF \E k \in 1..Len(values) : values[k] \notin {0, 1} THEN Raise(cx, "ValueError")
    ELSE LET vmode == IF plc_type = iQR_SERIES THEN DT_SWORD ELSE DT_BIT
             each(k) == <<DevPiece(bit_devices[k]), Enc(PyInt(values[k]), vmode, TRUE)>>
             body == [k \in 1..(2 * Len(values)) |-> each((k + 1) \div 2)[2 - (k % 2)]]
         IN  Bind(Exchange(cx,
                      <<Cmd(RANDOM_WRITE, BitSub), Enc(PyInt(Len(values)), DT_BIT, FALSE)>>
                        \o body,
                      Req(RANDOM_WRITE, BitSub,
                          [k \in 1..Len(bit_devices) |-> DevRef(bit_devices[k])],
                          Len(values), values), out),
                  LAMBDA c : IF c.raised # "none" THEN c ELSE [c EXCEPT !.ret = <<>>])

----------------------------------------------------------------------------
(* Time sync *)

SM210 == Dev("SM", <<2, 1, 0>>)
SM211 == Dev("SM", <<2, 1, 1>>)
SM213 == Dev("SM", <<2, 1, 3>>)
SD210 == Dev("SD", <<2, 1, 0>>)

\* datetime(...): the constructor's range check
DaysIn(year, month) ==
    IF month \in {4, 6, 9, 11} THEN 30
    ELSE IF month # 2 THEN 31
    ELSE IF (year % 4 = 0 /\ year % 100 # 0) \/ year % 400 = 0 THEN 29 ELSE 28

ValidDatetime(w) ==
    /\ 1 <= w[1] /\ w[1] <= 9999
    /\ 1 <= w[2] /\ w[2] <= 12
    /\ 1 <= w[3] /\ w[3] <= DaysIn(w[1], w[2])
    /\ 0 <= w[4] /\ w[4] <= 23
    /\ 0 <= w[5] /\ w[5] <= 59
    /\ 0 <= w[6] /\ w[6] <= 59

\* read_plc_time reading SD210 before the latch relay is set
read_plc_time_unlatched(cx, o1, o2, o3) ==
    Bind(batch_read_words(cx, SD210, 8, o1), LAMBDA c1 :
    Bind(batch_write_bits(c1, SM213, <<1>>, o2), LAMBDA c2 :
    Bind(batch_write_bits(c2, SM213, <<0>>, o3), LAMBDA c3 :
        LET result == c1.ret
        IN  IF c3.raised # "none" THEN c3
            ELSE [c3 EXCEPT !.ret = [year |-> result[1], month |-> result[2],
                                     day |-> result[3], hour |-> result[4],
                                     minute |-> result[5], second |-> result[6]]])))

\* Type3E.read_plc_time
read_plc_time(cx, o1, o2, o3) ==
    Bind(batch_write_bits(cx, SM213, <<1>>, o1), LAMBDA c1 :
    Bind(batch_read_words(c1, SD210, 8, o2), LAMBDA c2 :
    Bind(batch_write_bits(c2, SM213, <<0>>, o3), LAMBDA c3 :
        LET result == c2.ret
        IN  IF c3.raised # "none" THEN c3
            ELSE IF ~ValidDatetime(result) THEN Raise(c3, "ValueError")
            ELSE [c3 EXCEPT !.ret = [year |-> result[1], month |-> result[2],
                                     day |-> result[3], hour |-> result[4],
                                     minute |-> result[5], second |-> result[6]]])))

\* set_plc_time strobing SM210 before the time registers are written
set_plc_time_early_strobe(cx, dt, o) ==
    LET dtValues == <<dt.year, dt.month, dt.day, dt.hour, dt.minute, dt.second, dt.weekday, 0>>
    IN  Bind(random_write_bits(cx, <<SM211, SM213>>, <<0, 0>>, o[1]), LAMBDA c1 :
        Bind(batch_write_bits(c1, SM210, <<0>>, o[2]), LAMBDA c2 :
        Bind(batch_write_words(c2, SD210, dtValues, o[3]), LAMBDA c3 :
        Bind(batch_write_bits(c3, SM210, <<1>>, o[4]), LAMBDA c4 :
             batch_write_bits(c4, SM210, <<0>>, o[5])))))

\* Type3E.set_plc_time; dt is a datetime with its weekday()
set_plc_time(cx, dt, o) ==
    LET dtValues == <<dt.year, dt.month, dt.day, dt.hour, dt.minute, dt.second, dt.weekday, 0>>
    IN  Bind(random_write_bits(cx, <<SM211, SM213>>, <<0, 0>>, o[1]), LAMBDA c1 :
        Bind(batch_write_words(c1, SD210, dtValues, o[2]), LAMBDA c2 :
        Bind(batch_write_bits(c2, SM210, <<0>>, o[3]), LAMBDA c3 :
        Bind(batch_write_bits(c3, SM210, <<1>>, o[4]), LAMBDA c4 :
             batch_write_bits(c4, SM210, <<0>>, o[5])))))

----------------------------------------------------------------------------
(* Typed tag read / write *)

Tag(device, value, type, error) ==
    [device |-> device, value |-> value, type |-> type, error |-> error]

ErrPiece(e) == [ok |-> FALSE, err |-> e, bytes |-> <<>>]

\* what read(tags) / write(tags) return: None, or a list of tags
RetNone == [kind |-> "None", tags |-> <<>>]
RetList(tags) == [kind |-> "list", tags |-> tags]

\* the made-up device strings with the index never advanced
TempTagNames_stuck(device, element_size) ==
    LET device_index == ParseDigits(DecRun(device.idx), 10)
    IN  [index \in 1..element_size |-> Dev(device.type, ToDec(device_index))]

\* the device strings read/write make up for an element that is element_size
\* words wide: device_type + str(int(first digit run) + index)
TempTagNames(device, element_size) ==
    LET device_index == ParseDigits(DecRun(device.idx), 10)
    IN  [index \in 1..element_size |-> Dev(device.type, ToDec(device_index + index - 1))]

\* the device pieces of one element of read(tags); <<>> for an element whose
\* data type does not resolve
ReadElementDevs(element) ==
    LET element_size == get_dt_size(element.type) \div 2
    IN  IF element_size = 0 THEN <<>>
        ELSE IF element_size > 1 THEN TempTagNames(element.device, element_size)
        ELSE <<element.device>>

RECURSIVE ReadDevs(_)
ReadDevs(devices) ==
    IF devices = <<>> THEN <<>>
    ELSE ReadElementDevs(Head(devices)) \o ReadDevs(Tail(devices))

RECURSIVE ReadWordsCount(_)
\* read(tags): the words equivalent of the list
ReadWordsCount(devices) ==
    IF devices = <<>> THEN 0
    ELSE get_dt_size(Head(devices).type) \div 2 + ReadWordsCount(Tail(devices))

\* the request pieces of one element of read(tags); a multi-word element
\* whose device has no decimal digit makes re.search(r"\d+", ...) return None
ReadElementPieces(element) ==
    IF get_dt_size(element.type) > 2 /\ DecRun(element.device.idx) = <<>>
      THEN <<ErrPiece("AttributeError")>>
      ELSE LET devs == ReadElementDevs(element)
           IN  [k \in 1..Len(devs) |-> DevPiece(devs[k])]

RECURSIVE ReadPieces(_)
ReadPieces(devices) ==
    IF devices = <<>> THEN <<>>
    ELSE ReadElementPieces(Head(devices)) \o ReadPieces(Tail(devices))

RECURSIVE ReadOutput(_, _, _)
\* read(tags): the result list built from the data words of the response;
\* a value is kept as the words struct.unpack_from reads it from.
\* "struct.error" stands for a response too short for the element.
ReadOutput(devices, data, data_index) ==
    IF devices = <<>> THEN [err |-> "none", tags |-> <<>>]
    ELSE LET element == Head(devices)
             size == get_dt_size(element.type) \div 2
         IN  IF size = 0
               THEN LET rest == ReadOutput(Tail(devices), data, data_index)
                    IN  [rest EXCEPT !.tags = <<[element EXCEPT !.error = "DataTypeError"]>> \o @]
             ELSE IF data_index + size - 1 > Len(data)
               THEN [err |-> "struct.error", tags |-> <<>>]
             ELSE LET img == SubSeq(data, data_index, data_index + size - 1)
                      value == IF element.type = DT_BIT THEN <<img[1] % 2>> ELSE img
                      rest == ReadOutput(Tail(devices), data, data_index + size)
                  IN  [rest EXCEPT !.tags =
                          <<[element EXCEPT !.value = value, !.error = "Success"]>> \o @]

\* Type3E.read
read(cx, devices, out) ==
    Bind(ReadWordsCount(devices), LAMBDA words_count :
    Bind(ReadDevs(devices), LAMBDA devs :
    Bind(Join(<<Cmd(RANDOM_READ, WordSub), Enc(PyInt(words_count), DT_BIT, FALSE),
                Enc(PyInt(0), DT_BIT, FALSE)>>), LAMBDA head :
    Bind(Join(ReadPieces(devices)), LAMBDA body :
        IF ~head.ok THEN Raise(cx, head.err)
        ELSE IF ~body.ok THEN Raise(cx, body.err)
        ELSE IF words_count < 1 THEN [cx EXCEPT !.ret = RetNone]
        ELSE Bind(build_send_data(head.bytes \o body.bytes), LAMBDA f :
             Bind(send(IF f.ok THEN cx ELSE Raise(cx, "ValueError"),
                       [Req(RANDOM_READ, WordSub, [k \in 1..Len(devs) |-> DevRef(devs[k])],
                            words_count, <<>>) EXCEPT !.frame = f.bytes]), LAMBDA s :
             Bind(recv(s, out), LAMBDA c :
                 IF c.raised # "none" THEN c
                 ELSE IF check_command_response(c).raised = "MCError"
                   THEN [c EXCEPT !.ret = RetList(<<>>)]
                 ELSE Bind(ReadOutput(devices, c.ret.data, 1), LAMBDA o :
                          IF o.err # "none" THEN Raise(c, o.err)
                          ELSE [c EXCEPT !.ret = RetList(o.tags)]))))))))

\* struct.pack(type, value) with the native layout, as 16-bit words; a float
\* or double value is one of the integers 0, 1, 2, 3, -1 (IEEE 754 images).
\* ok = FALSE stands for struct.error.
PackNative(type, value) ==
    LET w(k) == (value \div (65536 ^ k)) % 65536
    IN  CASE type = "h" -> [ok |-> -32768 <= value /\ value <= 32767, words |-> <<w(0)>>]
          [] type = "H" -> [ok |-> 0 <= value /\ value <= 65535, words |-> <<w(0)>>]
          [] type = "i" -> [ok |-> TRUE, words |-> <<w(0), w(1)>>]
          [] type = "I" -> [ok |-> 0 <= value, words |-> <<w(0), w(1)>>]
          [] type = "q" -> [ok |-> TRUE,
                            words |-> <<w(0), w(1), IF value < 0 THEN 65535 ELSE 0,
                                        IF value < 0 THEN 65535 ELSE 0>>]
          [] type = "Q" -> [ok |-> 0 <= value, words |-> <<w(0), w(1), 0, 0>>]
          [] type = "f" ->
               [ok |-> value \in {0, 1, 2, 3, -1},
                words |-> <<0, CASE value = 1 -> 16256 [] value = 2 -> 16384
                                 [] value = 3 -> 16448 [] value = -1 -> 49024
                                 [] OTHER -> 0>>]
          [] type = "d" ->
               [ok |-> value \in {0, 1, 2, 3, -1},
                words |-> <<0, 0, 0, CASE value = 1 -> 16368 [] value = 2 -> 16384
                                       [] value = 3 -> 16392 [] value = -1 -> 49136
                                       [] OTHER -> 0>>]
          [] OTHER -> [ok |-> FALSE, words |-> <<>>]

RECURSIVE WordsToBytes(_)
WordsToBytes(ws) ==
    IF ws = <<>> THEN <<>> ELSE LEBytes(Head(ws), 2) \o WordsToBytes(Tail(ws))

\* bytes[lo:hi] of Python, 0-based and clipped
Slice(bytes, lo, hi) ==
    SubSeq(bytes, lo + 1, IF hi < Len(bytes) THEN hi ELSE Len(bytes))

RECURSIVE WriteWordsCount_bits(_)
\* the words equivalent of the list with the bit elements counted in
WriteWordsCount_bits(devices) ==
    IF devices = <<>> THEN 0
    ELSE get_dt_size(Head(devices).type) \div 2 + WriteWordsCount_bits(Tail(devices))

RECURSIVE WriteWordsCount(_)
\* write(tags): the words equivalent of the list, bit elements left out
WriteWordsCount(devices) ==
    IF devices = <<>> THEN 0
    ELSE (IF Head(devices).type = DT_BIT THEN 0 ELSE get_dt_size(Head(devices).type) \div 2)
         + WriteWordsCount(Tail(devices))

\* write(tags): the pieces one word-class element adds to the combined payload
WriteElement(el) ==
    LET element_size == get_dt_size(el.type) \div 2
        value == IF el.type \in {DT_UWORD, DT_UDWORD} /\ el.value < 0
                   THEN el.value * (-1) ELSE el.value
    IN
    Bind(PackNative(el.type, value), LAMBDA packed :
    Bind(WordsToBytes(packed.words), LAMBDA bytes :
    Bind(TempTagNames(el.device, element_size), LAMBDA names :
    LET chunk(k) == Slice(bytes, (k - 1) * wordsize, k * wordsize)
        fail(e) == [pieces |-> <<ErrPiece(e)>>, devs |-> <<>>, vals |-> <<>>]
    IN  IF element_size > 1
          THEN IF DecRun(el.device.idx) = <<>> THEN fail("AttributeError")
               ELSE IF ~packed.ok THEN fail("struct.error")
               ELSE [pieces |-> [k \in 1..(2 * element_size) |->
                                   IF k % 2 = 1 THEN DevPiece(names[(k + 1) \div 2])
                                   ELSE Raw(chunk(k \div 2))],
                     devs |-> names,
                     vals |-> [k \in 1..element_size |-> chunk(k)]]
          ELSE [pieces |-> <<DevPiece(el.device),
                             IF packed.ok THEN Raw(bytes) ELSE ErrPiece("struct.error")>>,
                devs |-> <<el.device>>,
                vals |-> <<bytes>>])))

RECURSIVE WriteLoop(_, _, _, _)
\* write(tags): the loop over the elements.  st is [cx, bytes, devs, vals,
\* output]; a bit element is written at once by batch_write_bits.
WriteLoop(st, devices, k, outs) ==
    IF k > Len(devices) \/ st.cx.raised # "none" THEN st
    ELSE LET el == devices[k]
         IN  IF el.type = DT_BIT
               THEN Bind([st EXCEPT !.cx = batch_write_bits(st.cx, el.device,
                                                            <<el.value>>, outs[k])],
                         LAMBDA st1 : WriteLoop(st1, devices, k + 1, outs))
             ELSE IF get_dt_size(el.type) = 0
               THEN Bind([st EXCEPT !.output =
                             Append(@, [el EXCEPT !.error = "DataTypeError"])],
                         LAMBDA st1 : WriteLoop(st1, devices, k + 1, outs))
             ELSE Bind(WriteElement(el), LAMBDA e :
                  Bind(Join(e.pieces), LAMBDA j :
                      IF ~j.ok THEN [st EXCEPT !.cx = Raise(st.cx, j.err)]
                      ELSE Bind([st EXCEPT !.bytes = @ \o j.bytes,
                                           !.devs = @ \o e.devs,
                                           !.vals = @ \o e.vals],
                                LAMBDA st1 : WriteLoop(st1, devices, k + 1, outs))))

\* Type3E.write
write(cx, devices, outs) ==
    Bind(WriteWordsCount(devices), LAMBDA words_count :
    Bind(Join(<<Cmd(RANDOM_WRITE, WordSub), Enc(PyInt(words_count), DT_BIT, FALSE),
                Enc(PyInt(0), DT_BIT, FALSE)>>), LAMBDA head :
        IF ~head.ok THEN Raise(cx, head.err)
        ELSE
    Bind(WriteLoop([cx |-> cx, bytes |-> head.bytes, devs |-> <<>>, vals |-> <<>>,
                    output |-> <<>>], devices, 1, outs), LAMBDA st :
        IF st.cx.raised # "none" THEN st.cx
        ELSE IF words_count < 1 THEN [st.cx EXCEPT !.ret = RetNone]
        ELSE
    Bind(build_send_data(st.bytes), LAMBDA f :
    Bind(send(IF f.ok THEN st.cx ELSE Raise(st.cx, "ValueError"),
              [Req(RANDOM_WRITE, WordSub, [k \in 1..Len(st.devs) |-> DevRef(st.devs[k])],
                   words_count, st.vals) EXCEPT !.frame = f.bytes]), LAMBDA s :
    Bind(recv(s, outs[Len(devices) + 1]), LAMBDA r :
    Bind(check_command_response(r), LAMBDA c :
        IF c.raised # "none" THEN c
        ELSE IF Len(st.output) < 1 THEN [c EXCEPT !.ret = RetNone]
        ELSE [c EXCEPT !.ret = RetList(st.output)])))))))


----------------------------------------------------------------------------
(* Connection: Type3E.connect, Type3E.close *)

NoSocket == [state |-> "none", timeout |-> 0, peer |-> <<"", 0>>]

\* socket.socket(); settimeout(self.sock_timeout); connect((ip, port))
NewSocket(h, p, ok) ==
    [state |-> IF ok THEN "conn" ELSE "fresh", timeout |-> sock_timeout, peer |-> <<h, p>>]

Targets == { <<"192.168.0.10", 5007>>, <<"192.168.0.11", 5008>> }

\* the record of a call that returned (or raised)
Call(op, args, cx, conns) ==
    [op |-> op, args |-> args, raised |-> cx.raised, rxerr |-> cx.rxerr, result |-> cx.ret,
     reqs |-> cx.reqs, recvs |-> cx.recvs, conns |-> conns]

NoCx(e) == [Cx0 EXCEPT !.raised = e]

Idle == [op |-> "idle", args |-> <<>>, raised |-> "none", rxerr |-> "none", result |-> <<>>,
         reqs |-> <<>>, recvs |-> <<>>, conns |-> <<>>]

NoCalc == [fn |-> "none"]

\* the class attributes of Type3E, as a new client has them
Constructed ==
    /\ comm_type = COMMTYPE_BINARY
    /\ wordsize = 2
    /\ network = PyInt(0)
    /\ pc = PyInt(255)
    /\ dest_moduleio = PyInt(1023)
    /\ dest_modulesta = PyInt(0)
    /\ timer = PyInt(4)
    /\ sock_timeout = 2
    /\ is_connected = FALSE
    /\ ip = ""
    /\ port = 0
    /\ sock = NoSocket
    /\ rx = <<>>
    /\ last = Idle

Init ==
    /\ plc_type \in Series
    /\ Constructed
    /\ calc = NoCalc

\* the caller takes the result of the call; the client is ready for the next
Return ==
    /\ last.op # "idle"
    /\ last' = Idle
    /\ UNCHANGED <<cfgvars, connvars, rx, calc>>

\* connect with the flag set before the socket is connected
connect_flag_first(flag, h, p, ok) ==
    [ip |-> h, port |-> p, sock |-> NewSocket(h, p, ok), is_connected |-> TRUE]

\* Type3E.connect on a client whose _is_connected is flag: the new values of
\* _ip, _port, _sock and _is_connected; ok tells whether the PLC accepts
connect(flag, h, p, ok) ==
    [ip |-> h, port |-> p, sock |-> NewSocket(h, p, ok),
     is_connected |-> IF ok THEN TRUE ELSE flag]

Connected(c) ==
    /\ ip' = c.ip
    /\ port' = c.port
    /\ sock' = c.sock
    /\ is_connected' = c.is_connected
    /\ rx' = <<>>

Connect(h, p, ok) ==
    /\ last.op = "idle"
    /\ Connected(connect(is_connected, h, p, ok))
    /\ last' = Call("connect", <<h, p>>, NoCx(IF ok THEN "none" ELSE "OSError"),
                    <<[ip |-> h, port |-> p, ok |-> ok, wait |-> 0]>>)
    /\ UNCHANGED <<cfgvars, calc>>

\* Type3E.close; before the first connect there is no self._sock
Close ==
    /\ last.op = "idle"
    /\ IF sock.state = "none"
         THEN /\ last' = Call("close", <<>>, NoCx("AttributeError"), <<>>)
              /\ UNCHANGED <<connvars, rx>>
         ELSE /\ sock' = [sock EXCEPT !.state = "closed"]
              /\ is_connected' = FALSE
              /\ rx' = <<>>
              /\ last' = Call("close", <<>>, NoCx("none"), <<>>)
              /\ UNCHANGED <<ip, port>>
    /\ UNCHANGED <<cfgvars, calc>>

----------------------------------------------------------------------------
(* Access options: Type3E.set_access_opt.  An argument that is 0 (or "")   *)
(* is falsy and skipped, like one that is not passed.                      *)

Opt(c, n, p, io, st, t) ==
    [comm_type |-> c, network |-> n, pc |-> p, dest_moduleio |-> io,
     dest_modulesta |-> st, timer_sec |-> t]

OptInputs ==
    { Opt("ascii", 0, 0, 0, 0, 0), Opt("binary", 0, 0, 0, 0, 0), Opt("hex", 1, 0, 0, 0, 3),
      Opt("", 1, 256, 0, 0, 0), Opt("", 0, 0, 0, 0, 1), Opt("", 0, 0, 0, 0, 3),
      Opt("", 0, 0, 0, 0, 16384), Opt("", 0, 1, 65536, 2, 1) }

\* the first step of set_access_opt that raises, 7 if none does
OptStage(o) ==
    IF o.comm_type \notin {"", "binary", "ascii"} THEN 1
    ELSE IF o.network # 0 /\ ~StructInRange("B", o.network) THEN 2
    ELSE IF o.pc # 0 /\ ~StructInRange("B", o.pc) THEN 3
    ELSE IF o.dest_moduleio # 0 /\ ~StructInRange("H", o.dest_moduleio) THEN 4
    ELSE IF o.dest_modulesta # 0 /\ ~StructInRange("B", o.dest_modulesta) THEN 5
    ELSE IF o.timer_sec # 0 /\ ~StructInRange("H", o.timer_sec * 4) THEN 6
    ELSE 7

SetAccessOpt(o) ==
    LET stage == OptStage(o)
        setTimer == stage > 6 /\ o.timer_sec # 0
    IN  /\ last.op = "idle"
        /\ comm_type' = IF stage > 1 /\ o.comm_type # "" THEN o.comm_type ELSE comm_type
        /\ wordsize' = IF stage > 1 /\ o.comm_type # ""
                         THEN (IF o.comm_type = "binary" THEN 2 ELSE 4) ELSE wordsize
        /\ network' = IF stage > 2 /\ o.network # 0 THEN PyBytes(o.network) ELSE network
        /\ pc' = IF stage > 3 /\ o.pc # 0 THEN PyBytes(o.pc) ELSE pc
        /\ dest_moduleio' = IF stage > 4 /\ o.dest_moduleio # 0
                              THEN PyBytes(o.dest_moduleio) ELSE dest_moduleio
        /\ dest_modulesta' = IF stage > 5 /\ o.dest_modulesta # 0
                               THEN PyBytes(o.dest_modulesta) ELSE dest_modulesta
        /\ timer' = IF setTimer THEN PyBytes(o.timer_sec * 4) ELSE timer
        /\ sock_timeout' = IF setTimer THEN o.timer_sec + 1 ELSE sock_timeout
        /\ sock' = IF setTimer /\ is_connected
                     THEN [sock EXCEPT !.timeout = o.timer_sec + 1] ELSE sock
        /\ last' = Call("set_access_opt", o,
                        NoCx(CASE stage = 1 -> "CommTypeError" [] stage = 7 -> "none"
                               [] OTHER -> "ValueError"), <<>>)
        /\ UNCHANGED <<plc_type, is_connected, ip, port, rx, calc>>

----------------------------------------------------------------------------
(* Remote reset: Type3E.remote_reset *)

RemoteReset(kind, ok) ==
    /\ last.op = "idle"
    /\ \E j \in { Join(<<Cmd(REMOTE_RESET, 0), Enc(PyInt(1), DT_SWORD, FALSE)>>) } :
       \E f \in { build_send_data(j.bytes) } :
       \E c0 \in { IF j.ok /\ f.ok
                     THEN send(Cx0, [Req(REMOTE_RESET, 0, <<>>, 0, <<>>)
                                       EXCEPT !.frame = f.bytes])
                     ELSE Raise(Cx0, IF j.ok THEN "ValueError" ELSE j.err) } :
       \E c1 \in { check_command_response(Bind(recv(c0, kind), LAMBDA r : r)) } :
           IF c0.raised # "none"
             THEN /\ last' = Call("remote_reset", <<>>, c0, <<>>)
                  /\ UNCHANGED <<cfgvars, connvars, rx, calc>>
           ELSE IF c1.raised = "none"
             THEN /\ sock' = [sock EXCEPT !.timeout = 1]
                  /\ rx' = c1.rx
                  /\ last' = Call("remote_reset", <<>>, [c1 EXCEPT !.ret = <<>>], <<>>)
                  /\ UNCHANGED <<cfgvars, is_connected, ip, port, calc>>
           ELSE \* self._is_connected = False; time.sleep(1); self.connect(...)
                /\ Connected(connect(FALSE, ip, port, ok))
                /\ last' = Call("remote_reset", <<>>,
                                [c1 EXCEPT !.raised = IF ok THEN "none" ELSE "OSError",
                                           !.ret = <<>>],
                                <<[ip |-> ip, port |-> port, ok |-> ok, wait |-> 1]>>)
                /\ UNCHANGED <<cfgvars, calc>>

----------------------------------------------------------------------------
(* Calls of the command methods *)

\* a command that leaves the configuration and the connection alone
Commit(op, args, cx) ==
    /\ last.op = "idle"
    /\ \E c \in {cx} :
           /\ rx' = c.rx
           /\ last' = Call(op, args, c, <<>>)
    /\ UNCHANGED <<cfgvars, connvars, calc>>

\* what happens to the k requests of one call: at most one of them goes wrong
KindSeqs(k) == { o \in [1..k -> Kinds] : Cardinality({i \in 1..k : o[i] # "ok"}) <= 1 }

DevInputs == { Dev("D", <<1, 0, 0>>), Dev("SD", <<2, 0, 3>>) }

BatchReadWords(dev, n, kind) ==
    Commit("batch_read_words", <<dev, n>>, batch_read_words(Cx0, dev, n, kind))

BatchWriteBits(dev, values, kind) ==
    Commit("batch_write_bits", <<dev, values>>, batch_write_bits(Cx0, dev, values, kind))

ReadPlcTime(o) ==
    Commit("read_plc_time", <<>>, read_plc_time(Cx0, o[1], o[2], o[3]))

DtInputs ==
    { [year |-> 2024, month |-> 5, day |-> 17, hour |-> 13, minute |-> 45, second |-> 59,
       weekday |-> 4],
      [year |-> 2000, month |-> 1, day |-> 2, hour |-> 0, minute |-> 1, second |-> 2,
       weekday |-> 6] }

SetPlcTime(dt, o) ==
    Commit("set_plc_time", dt, set_plc_time(Cx0, dt, o))

TagPool ==
    { Tag(Dev("D", <<1, 0, 0>>), 7, "h", ""),
      Tag(Dev("D", <<1, 0, 0>>), 1, "f", ""),
      Tag(Dev("D", <<9, 8>>), 2, "d", ""),
      Tag(Dev("M", <<1, 0>>), 1, "b", ""),
      Tag(Dev("D", <<3, 0, 0>>), 0, "zz", "") }

TagLists == UNION { [1..n -> TagPool] : n \in 0..MaxTags }

Read(tags, kind) ==
    Commit("read", tags, read(Cx0, tags, kind))

Write(tags, o) ==
    Commit("write", tags, write(Cx0, tags, o))

Next ==
    \/ \E t \in Targets, ok \in BOOLEAN : Connect(t[1], t[2], ok)
    \/ Close
    \/ \E o \in OptInputs : SetAccessOpt(o)
    \/ \E kind \in Kinds, ok \in BOOLEAN : RemoteReset(kind, ok)
    \/ \E dev \in DevInputs, n \in {1, 2}, kind \in Kinds : BatchReadWords(dev, n, kind)
    \/ \E values \in {<<1>>, <<0, 1, 1>>, <<2>>}, kind \in Kinds :
           BatchWriteBits(Dev("M", <<1, 0>>), values, kind)
    \/ \E o \in KindSeqs(3) : ReadPlcTime(o)
    \/ \E dt \in DtInputs, o \in KindSeqs(5) : SetPlcTime(dt, o)
    \/ Return

Spec == Init /\ [][Next]_vars

\* the typed tag API on a client with the default access options
NextTags ==
    \/ \E t \in Targets, ok \in BOOLEAN : Connect(t[1], t[2], ok)
    \/ Close
    \/ \E tags \in TagLists, kind \in Kinds : Read(tags, kind)
    \/ \E tags \in TagLists : \E o \in KindSeqs(Len(tags) + 1) : Write(tags, o)
    \/ Return

SpecTags == Init /\ [][NextTags]_vars

----------------------------------------------------------------------------
(* The bit packer alone: a list of 0/1 values is packed as batch_write_bits *)
(* packs it, and the data bytes are unpacked as batch_read_bits does       *)

RECURSIVE SeqsUpTo(_, _)
\* the sequences over S of length 1..n
SeqsUpTo(S, n) == IF n = 0 THEN {} ELSE SeqsUpTo(S, n - 1) \cup [1..n -> S]

InitBits ==
    /\ plc_type = Q_SERIES
    /\ Constructed
    /\ \E c \in {COMMTYPE_BINARY, COMMTYPE_ASCII}, values \in SeqsUpTo({0, 1}, MaxBits) :
           calc = [fn |-> "bits", pc |-> "start", comm |-> c, values |-> values,
                   data |-> <<>>, read |-> <<>>]

PackBits ==
    /\ calc.pc = "start"
    /\ calc' = [calc EXCEPT !.pc = "packed", !.data = pack_bits(calc.comm, calc.values)]
    /\ UNCHANGED <<cfgvars, connvars, rx, last>>

UnpackBits ==
    /\ calc.pc = "packed"
    /\ calc' = [calc EXCEPT !.pc = "unpacked",
                            !.read = unpack_bits(calc.comm, calc.data, Len(calc.values))]
    /\ UNCHANGED <<cfgvars, connvars, rx, last>>

NextBits == PackBits \/ UnpackBits

SpecBits == InitBits /\ [][NextBits]_vars

----------------------------------------------------------------------------
(* The value codec alone: an integer is encoded as _encode_value encodes   *)
(* it, and the result, if there is one, is decoded as _decode_value does   *)

CodecModes == {DT_BIT, DT_SWORD, DT_SDWORD}

CodecValues ==
    {-2147483647, -32769, -32768, -129, -128, -1, 0, 1, 127, 128, 255, 256, 32767, 32768,
     65535, 65536, 2147483647}

InitCodec ==
    /\ plc_type = Q_SERIES
    /\ Constructed
    /\ \E c \in {COMMTYPE_BINARY, COMMTYPE_ASCII}, m \in CodecModes, sg \in BOOLEAN,
          v \in CodecValues :
           calc = [fn |-> "codec", pc |-> "start", comm |-> c, mode |-> m, isSigned |-> sg,
                   value |-> v, enc |-> [ok |-> FALSE, bytes |-> <<>>],
                   dec |-> [ok |-> FALSE, v |-> 0]]

EncodeValue ==
    /\ calc.pc = "start"
    /\ calc' = [calc EXCEPT !.pc = "encoded",
                            !.enc = encode_value(calc.comm, PyInt(calc.value), calc.mode,
                                                 calc.isSigned)]
    /\ UNCHANGED <<cfgvars, connvars, rx, last>>

DecodeValue ==
    /\ calc.pc = "encoded"
    /\ calc.enc.ok
    /\ calc' = [calc EXCEPT !.pc = "decoded",
                            !.dec = decode_value(calc.comm, calc.enc.bytes, calc.mode,
                                                 calc.isSigned)]
    /\ UNCHANGED <<cfgvars, connvars, rx, last>>

NextCodec == EncodeValue \/ DecodeValue

SpecCodec == InitCodec /\ [][NextCodec]_vars

----------------------------------------------------------------------------
(* The frame builders alone: on a client configured by set_access_opt, a   *)
(* payload is framed as Type3E and as Type4E (with its serial number) do   *)

RECURSIVE SeqsTo(_, _)
\* the sequences over S of length 0..n
SeqsTo(S, n) == IF n = 0 THEN {<<>>} ELSE SeqsTo(S, n - 1) \cup [1..n -> S]

InitFrame ==
    /\ plc_type = Q_SERIES
    /\ \E c \in {COMMTYPE_BINARY, COMMTYPE_ASCII} :
           comm_type = c /\ wordsize = IF c = COMMTYPE_BINARY THEN 2 ELSE 4
    /\ network \in {PyInt(0), PyBytes(1)}
    /\ pc = PyInt(255)
    /\ dest_moduleio = PyInt(1023)
    /\ dest_modulesta = PyInt(0)
    /\ \E t \in {0, 3} :
           /\ timer = IF t = 0 THEN PyInt(4) ELSE PyBytes(t * 4)
           /\ sock_timeout = IF t = 0 THEN 2 ELSE t + 1
    /\ is_connected = FALSE
    /\ ip = ""
    /\ port = 0
    /\ sock = NoSocket
    /\ rx = <<>>
    /\ last = Idle
    /\ \E serial \in {0, 1, 65535}, payload \in SeqsTo({0, 255}, MaxPayload) :
           calc = [fn |-> "frame", pc |-> "start", serial |-> PyInt(serial),
                   payload |-> payload, f3 |-> [ok |-> FALSE, bytes |-> <<>>],
                   f4 |-> [ok |-> FALSE, bytes |-> <<>>]]

BuildSendData3E ==
    /\ calc.pc = "start"
    /\ calc' = [calc EXCEPT !.pc = "3E", !.f3 = build_send_data(calc.payload)]
    /\ UNCHANGED <<cfgvars, connvars, rx, last>>

BuildSendData4E ==
    /\ calc.pc = "3E"
    /\ calc' = [calc EXCEPT !.pc = "4E",
                            !.f4 = build_send_data_4e(calc.payload, calc.serial)]
    /\ UNCHANGED <<cfgvars, connvars, rx, last>>

NextFrame == BuildSendData3E \/ BuildSendData4E

SpecFrame == InitFrame /\ [][NextFrame]_vars

----------------------------------------------------------------------------
(* Response offsets: _get_response_status_index / _get_response_data_index *)
(* of Type3E and their overrides in Type4E.  The bytes received are marked *)
(* with their own position, so that a slice tells where it was taken from. *)

get_response_status_index(frame, comm) ==
    IF frame = "3E" THEN (IF comm = COMMTYPE_BINARY THEN 9 ELSE 18)
    ELSE (IF comm = COMMTYPE_BINARY THEN 13 ELSE 26)

\* the data index of Type3E used by both classes
get_response_data_index_3e(frame, comm) ==
    IF comm = COMMTYPE_BINARY THEN 11 ELSE 22

get_response_data_index(frame, comm) ==
    IF frame = "3E" THEN (IF comm = COMMTYPE_BINARY THEN 11 ELSE 22)
    ELSE (IF comm = COMMTYPE_BINARY THEN 15 ELSE 30)

RecvLen == 40
RecvData == [k \in 1..RecvLen |-> k - 1]

InitResp ==
    /\ plc_type \in Series
    /\ \E c \in {COMMTYPE_BINARY, COMMTYPE_ASCII} :
           comm_type = c /\ wordsize = IF c = COMMTYPE_BINARY THEN 2 ELSE 4
    /\ network = PyInt(0)
    /\ pc = PyInt(255)
    /\ dest_moduleio = PyInt(1023)
    /\ dest_modulesta = PyInt(0)
    /\ timer = PyInt(4)
    /\ sock_timeout = 2
    /\ is_connected = FALSE
    /\ ip = ""
    /\ port = 0
    /\ sock = NoSocket
    /\ rx = <<>>
    /\ last = Idle
    /\ \E frame \in {"3E", "4E"}, command \in {BATCH_READ, RANDOM_READ, REMOTE_RESET} :
           calc = [fn |-> "resp", pc |-> "start", frame |-> frame, command |-> command,
                   recv_data |-> RecvData, status |-> <<>>, data |-> <<>>]

\* _check_command_response: the slice given to _decode_value
CheckCommandResponse ==
    /\ calc.pc = "start"
    /\ LET response_status_index == get_response_status_index(calc.frame, comm_type)
       IN  calc' = [calc EXCEPT !.pc = "status",
                                !.status = Slice(calc.recv_data, response_status_index,
                                                 response_status_index + wordsize)]
    /\ UNCHANGED <<cfgvars, connvars, rx, last>>

\* the first data slice a command takes after the status check
ReadResponseData ==
    /\ calc.pc = "status"
    /\ LET data_index == get_response_data_index(calc.frame, comm_type)
       IN  calc' = [calc EXCEPT !.pc = "data",
                                !.data = Slice(calc.recv_data, data_index,
                                               data_index + wordsize)]
    /\ UNCHANGED <<cfgvars, connvars, rx, last>>

NextResp == CheckCommandResponse \/ ReadResponseData

SpecResp == InitResp /\ [][NextResp]_vars

----------------------------------------------------------------------------
(* Error mapper: Type3E._check_mc_error and exceptions.MCError.  A Python  *)
(* str is [t |-> "str", v |-> its characters]; the characters of a number  *)
(* are its digits.                                                         *)

PyStr(cs) == [t |-> "str", v |-> cs]

\* a == b of Python: values of different types are not equal
PyEq(a, b) == a.t = b.t /\ a.v = b.v

\* the status codes MCError.__str__ has a branch for, with the text of the
\* branch (up to its first full stop)
KnownCodes ==
    {80, 81, 82, 83, 84, 85, 49238, 49240, 49241, 49243, 49244, 49245, 49247, 49248, 49249,
     49263, 49264, 49333, 49664, 49665, 49668}

Description(code) ==
    CASE code = 80 -> "When \"Communication Data Code\" is set to ASCII Code, ASCII code data that cannot be converted to binary were received."
      [] code \in 81..84 -> "The number of read or write points is outside the allowable range."
      [] code = 85 -> "Although online change is disabled, the connected device requested the RUN-state CPU module for data writing."
      [] code = 49238 -> "The read or write request exceeds the maximum address."
      [] code = 49240 -> "The request data length after ASCII-to-binary conversion does not match the data size of the character area (a part of text data)."
      [] code = 49241 -> "The command and/or subcommand are specified incorrectly."
      [] code = 49243 -> "The CPU module cannot read data from or write data to the specified device."
      [] code = 49244 -> "The request data is incorrect."
      [] code = 49245 -> "No monitor registration"
      [] code = 49247 -> "The request cannot be executed to the CPU module."
      [] code = 49248 -> "The request data is incorrect."
      [] code = 49249 -> "The request data length does not match the number of data in the character area (a part of text data)."
      [] code = 49263 -> "The CPU module received a request message in ASCII format when Communication Data Code is set to Binary Code"
      [] code = 49264 -> "The device memory extension cannot be specified for the target station."
      [] code = 49333 -> "The CPU module cannot handle the data specified."
      [] code = 49664 -> "The remote password is incorrect."
      [] code = 49665 -> "The port used for communication is locked with the remote password."
      [] code = 49668 -> "The connected device is different from the one that requested for unlock processing of the remote password."
      [] OTHER -> ""

\* str(errorcode).rjust(4, "0")
Rjust4(cs) == [k \in 1..(4 - Len(cs)) |-> 0] \o cs

\* MCError.__init__: the errorcode attribute; "0x" is followed by the digits
\* held in v
MCError_init(errorcode) == PyStr(Rjust4(ToDec(errorcode)))

\* MCError.__str__: ok = FALSE stands for the TypeError of comparing a str
\* with an int, or of __str__ returning None when no branch is taken
MCError_str(errorcode) ==
    IF PyEq(errorcode, PyInt(80))
      THEN [ok |-> TRUE, code |-> errorcode.v, text |-> Description(80)]
    ELSE IF errorcode.t # "int"
      THEN [ok |-> FALSE, code |-> <<>>, text |-> "TypeError"]
    ELSE IF errorcode.v \in KnownCodes
      THEN [ok |-> TRUE, code |-> errorcode.v, text |-> Description(errorcode.v)]
    ELSE [ok |-> FALSE, code |-> <<>>, text |-> "TypeError"]

StatusInputs == KnownCodes \cup 0..20 \cup {39321, 65535}

InitErr ==
    /\ plc_type = Q_SERIES
    /\ Constructed
    /\ \E status \in StatusInputs :
           calc = [fn |-> "err", pc |-> "start", status |-> status, raised |-> FALSE,
                   errorcode |-> PyStr(<<>>),
                   message |-> [ok |-> FALSE, code |-> <<>>, text |-> ""]]

\* _check_mc_error(status)
CheckMcError ==
    /\ calc.pc = "start"
    /\ calc' = IF calc.status = 0
                 THEN [calc EXCEPT !.pc = "checked"]
                 ELSE [calc EXCEPT !.pc = "checked", !.raised = TRUE,
                                   !.errorcode = MCError_init(calc.status)]
    /\ UNCHANGED <<cfgvars, connvars, rx, last>>

\* str(e) of the MCError raised
RenderMessage ==
    /\ calc.pc = "checked"
    /\ calc.raised
    /\ calc' = [calc EXCEPT !.pc = "rendered", !.message = MCError_str(calc.errorcode)]
    /\ UNCHANGED <<cfgvars, connvars, rx, last>>

NextErr == CheckMcError \/ RenderMessage

SpecErr == InitErr /\ [][NextErr]_vars

----------------------------------------------------------------------------
(* Device tables: DeviceConstants.get_binary_device_code (above),          *)
(* get_ascii_device_code and get_device_type.                              *)

BIT_DEVICE   == "bit"
WORD_DEVICE  == "word"
DWORD_DEVICE == "dword"

\* text.ljust(width, "*")
Ljust(text, width) ==
    CASE width - Len(text) = 3 -> text \o "***"
      [] width - Len(text) = 2 -> text \o "**"
      [] width - Len(text) = 1 -> text \o "*"
      [] OTHER -> text

Found(code, base) == [ok |-> TRUE, code |-> code, base |-> base]

\* get_ascii_device_code: ok = FALSE stands for DeviceCodeError
get_ascii_device_code(series, device_name) ==
    LET padding == IF series = iQR_SERIES THEN 4 ELSE 2
    IN  CASE device_name = "SM" -> Found(Ljust(device_name, padding), 10)
          [] device_name = "SD" -> Found(Ljust(device_name, padding), 10)
          [] device_name = "X" -> Found(Ljust(device_name, padding), 16)
          [] device_name = "Y" -> Found(Ljust(device_name, padding), 16)
          [] device_name = "M" -> Found(Ljust(device_name, padding), 10)
          [] device_name = "L" -> Found(Ljust(device_name, padding), 10)
          [] device_name = "F" -> Found(Ljust(device_name, padding), 10)
          [] device_name = "V" -> Found(Ljust(device_name, padding), 10)
          [] device_name = "B" -> Found(Ljust(device_name, padding), 16)
          [] device_name = "D" -> Found(Ljust(device_name, padding), 10)
          [] device_name = "W" -> Found(Ljust(device_name, padding), 16)
          [] device_name = "TS" -> Found(Ljust(device_name, padding), 10)
          [] device_name = "TC" -> Found(Ljust(device_name, padding), 10)
          [] device_name = "TN" -> Found(Ljust(device_name, padding), 10)
          [] device_name = "STS" ->
             IF series = iQR_SERIES THEN Found(Ljust("STS", padding), 10)
             ELSE Found(Ljust("SS", padding), 10)
          [] device_name = "STC" ->
             IF series = iQR_SERIES THEN Found(Ljust("STC", padding), 10)
             ELSE Found(Ljust("SC", padding), 10)
          [] device_name = "STN" ->
             IF series = iQR_SERIES THEN Found(Ljust("STN", padding), 10)
             ELSE Found(Ljust("SN", padding), 10)
          [] device_name = "CS" -> Found(Ljust(device_name, padding), 10)
          [] device_name = "CC" -> Found(Ljust(device_name, padding), 10)
          [] device_name = "CN" -> Found(Ljust(device_name, padding), 10)
          [] device_name = "SB" -> Found(Ljust(device_name, padding), 16)
          [] device_name = "SW" -> Found(Ljust(device_name, padding), 16)
          [] device_name = "DX" -> Found(Ljust(device_name, padding), 16)
          [] device_name = "DY" -> Found(Ljust(device_name, padding), 16)
          [] device_name = "R" -> Found(Ljust(device_name, padding), 10)
          [] device_name = "ZR" -> Found(Ljust(device_name, padding), 16)
          [] device_name = "LTS" /\ series = iQR_SERIES -> Found(Ljust(device_name, padding), 10)
          [] device_name = "LTC" /\ series = iQR_SERIES -> Found(Ljust(device_name, padding), 10)
          [] device_name = "LTN" /\ series = iQR_SERIES -> Found(Ljust(device_name, padding), 10)
          [] device_name = "LSTS" /\ series = iQR_SERIES -> Found(Ljust(device_name, padding), 10)
          [] device_name = "LSTN" /\ series = iQR_SERIES -> Found(Ljust(device_name, padding), 10)
          [] device_name = "LCS" /\ series = iQR_SERIES -> Found(Ljust(device_name, padding), 10)
          [] device_name = "LCC" /\ series = iQR_SERIES -> Found(Ljust(device_name, padding), 10)
          [] device_name = "LCN" /\ series = iQR_SERIES -> Found(Ljust(device_name, padding), 10)
          [] device_name = "LZ" /\ series = iQR_SERIES -> Found(Ljust(device_name, padding), 10)
          [] device_name = "RD" /\ series = iQR_SERIES -> Found(Ljust(device_name, padding), 10)
          [] OTHER -> [ok |-> FALSE, code |-> "", base |-> 10]

\* get_device_type: "DeviceCodeError" stands for the exception
get_device_type(series, device_name) ==
    CASE device_name = "SM" -> BIT_DEVICE
      [] device_name = "SD" -> WORD_DEVICE
      [] device_name = "X" -> BIT_DEVICE
      [] device_name = "Y" -> BIT_DEVICE
      [] device_name = "M" -> BIT_DEVICE
      [] device_name = "L" -> BIT_DEVICE
      [] device_name = "F" -> BIT_DEVICE
      [] device_name = "V" -> BIT_DEVICE
      [] device_name = "B" -> BIT_DEVICE
      [] device_name = "D" -> WORD_DEVICE
      [] device_name = "W" -> WORD_DEVICE
      [] device_name = "TS" -> BIT_DEVICE
      [] device_name = "TC" -> BIT_DEVICE
      [] device_name = "TN" -> WORD_DEVICE
      [] device_name = "STS" -> BIT_DEVICE
      [] device_name = "STC" -> BIT_DEVICE
      [] device_name = "STN" -> WORD_DEVICE
      [] device_name = "CS" -> BIT_DEVICE
      [] device_name = "CC" -> BIT_DEVICE
      [] device_name = "CN" -> WORD_DEVICE
      [] device_name = "SB" -> BIT_DEVICE
      [] device_name = "SW" -> WORD_DEVICE
      [] device_name = "DX" -> BIT_DEVICE
      [] device_name = "DY" -> BIT_DEVICE
      [] device_name = "R" -> WORD_DEVICE
      [] device_name = "ZR" -> WORD_DEVICE
      [] device_name = "LTS" /\ series = iQR_SERIES -> BIT_DEVICE
      [] device_name = "LTC" /\ series = iQR_SERIES -> BIT_DEVICE
      [] device_name = "LTN" /\ series = iQR_SERIES -> BIT_DEVICE
      [] device_name = "LSTS" /\ series = iQR_SERIES -> BIT_DEVICE
      [] device_name = "LSTN" /\ series = iQR_SERIES -> DWORD_DEVICE
      [] device_name = "LCS" /\ series = iQR_SERIES -> BIT_DEVICE
      [] device_name = "LCC" /\ series = iQR_SERIES -> BIT_DEVICE
      [] device_name = "LCN" /\ series = iQR_SERIES -> DWORD_DEVICE
      [] device_name = "LZ" /\ series = iQR_SERIES -> DWORD_DEVICE
      [] device_name = "RD" /\ series = iQR_SERIES -> WORD_DEVICE
      [] OTHER -> "DeviceCodeError"

\* the device types of the manual: those of every series, those of iQ-R only
CommonDevices ==
    {"SM", "SD", "X", "Y", "M", "L", "F", "V", "B", "D", "W", "TS", "TC", "TN", "STS", "STC",
     "STN", "CS", "CC", "CN", "SB", "SW", "DX", "DY", "R", "ZR"}

IQROnlyDevices == {"LTS", "LTC", "LTN", "LSTS", "LSTC", "LSTN", "LCS", "LCC", "LCN", "LZ", "RD"}

InitDev ==
    /\ plc_type \in Series
    /\ Constructed
    /\ \E name \in CommonDevices \cup IQROnlyDevices \cup {"A"} :
           calc = [fn |-> "dev", pc |-> "start", name |-> name,
                   bin |-> <<0, 10>>, asc |-> [ok |-> FALSE, code |-> "", base |-> 10],
                   cls |-> "DeviceCodeError"]

GetBinaryDeviceCode ==
    /\ calc.pc = "start"
    /\ calc' = [calc EXCEPT !.pc = "bin", !.bin = get_binary_device_code(plc_type, calc.name)]
    /\ UNCHANGED <<cfgvars, connvars, rx, last>>

GetAsciiDeviceCode ==
    /\ calc.pc = "bin"
    /\ calc' = [calc EXCEPT !.pc = "asc", !.asc = get_ascii_device_code(plc_type, calc.name)]
    /\ UNCHANGED <<cfgvars, connvars, rx, last>>

GetDeviceType ==
    /\ calc.pc = "asc"
    /\ calc' = [calc EXCEPT !.pc = "cls", !.cls = get_device_type(plc_type, calc.name)]
    /\ UNCHANGED <<cfgvars, connvars, rx, last>>

NextDev == GetBinaryDeviceCode \/ GetAsciiDeviceCode \/ GetDeviceType

SpecDev == InitDev /\ [][NextDev]_vars

----------------------------------------------------------------------------
(* Device references: Type3E._build_device_data on the text type + index,  *)
(* the index written in the base the binary table gives for the type.      *)

RECURSIVE ToBase(_, _)
\* the digits of n >= 0 written in the base, without leading zeros
ToBase(n, base) ==
    IF n < base THEN <<n>> ELSE ToBase(n \div base, base) \o <<n % base>>

DevIndexes == {0, 9, 10, 26, 160, 255, 4095, 65535, 11259375, 16777215}

InitDevData ==
    /\ plc_type \in Series
    /\ Constructed
    /\ \E type \in CommonDevices \cup IQROnlyDevices, n \in DevIndexes :
           calc = [fn |-> "devdata", pc |-> "start", type |-> type, index |-> n,
                   text |-> ToBase(n, get_binary_device_code(plc_type, type)[2]),
                   out |-> [ok |-> FALSE, err |-> "none", code |-> 0, num |-> 0,
                            bytes |-> <<>>]]

BuildDeviceData ==
    /\ calc.pc = "start"
    /\ calc' = [calc EXCEPT !.pc = "built",
                            !.out = build_device_data(plc_type, comm_type,
                                                      Dev(calc.type, calc.text))]
    /\ UNCHANGED <<cfgvars, connvars, rx, last>>

NextDevData == BuildDeviceData

SpecDevData == InitDevData /\ [][NextDevData]_vars

----------------------------------------------------------------------------
(* Remote password: Type3E.remote_unlock, Type3E.remote_lock.  A password  *)
(* is the sequence of the code points of its characters; request_input is  *)
(* False, so the password is the argument.                                 *)

MaxPassword == 33

\* the checks with the iQ-R lower bound of the other series
check_password_short(series, password) ==
    IF \E k \in 1..Len(password) : password[k] > 127
      THEN "ValueError: password must be only ascii code"
    ELSE IF series = iQR_SERIES
      THEN IF ~(4 <= Len(password) /\ Len(password) <= 32)
             THEN "ValueError: password length must be from 6 to 32"
             ELSE "none"
    ELSE IF ~(4 = Len(password))
      THEN "ValueError: password length must be 4"
    ELSE "none"

\* the checks at the head of remote_unlock and remote_lock: the ValueError
\* raised, or "none"; password.encode('ascii') raises UnicodeEncodeError for
\* a character above 127
check_password(series, password) ==
    IF \E k \in 1..Len(password) : password[k] > 127
      THEN "ValueError: password must be only ascii code"
    ELSE IF series = iQR_SERIES
      THEN IF ~(6 <= Len(password) /\ Len(password) <= 32)
             THEN "ValueError: password length must be from 6 to 32"
             ELSE "none"
    ELSE IF ~(4 = Len(password))
      THEN "ValueError: password length must be 4"
    ELSE "none"

\* the body shared by remote_unlock and remote_lock
remote_password(cx, command, password, out) ==
    Bind(check_password(plc_type, password), LAMBDA e :
        IF e # "none" THEN Raise(cx, e)
        ELSE Bind(Exchange(cx,
                      <<Cmd(command, 0), Enc(PyInt(Len(password)), DT_SWORD, FALSE),
                        Raw(password)>>,
                      Req(command, 0, <<>>, Len(password), password), out),
                  LAMBDA c : IF c.raised # "none" THEN c ELSE [c EXCEPT !.ret = <<>>]))

remote_unlock(cx, password, out) == remote_password(cx, REMOTE_UNLOCK, password, out)

remote_lock(cx, password, out) == remote_password(cx, REMOTE_LOCK, password, out)

\* passwords of "a" of every length up to the bound, and some with an e-acute
PasswordInputs ==
    { [k \in 1..n |-> 97] : n \in 0..MaxPassword }
        \cup { [k \in 1..n |-> IF k = n THEN 233 ELSE 97] : n \in {4, 6, 32} }

InitLock ==
    /\ plc_type \in Series
    /\ \E c \in {COMMTYPE_BINARY, COMMTYPE_ASCII} :
           comm_type = c /\ wordsize = IF c = COMMTYPE_BINARY THEN 2 ELSE 4
    /\ network = PyInt(0)
    /\ pc = PyInt(255)
    /\ dest_moduleio = PyInt(1023)
    /\ dest_modulesta = PyInt(0)
    /\ timer = PyInt(4)
    /\ sock_timeout = 2
    /\ is_connected = FALSE
    /\ ip = ""
    /\ port = 0
    /\ sock = NoSocket
    /\ rx = <<>>
    /\ last = Idle
    /\ calc = NoCalc

RemoteUnlock(password, kind) ==
    Commit("remote_unlock", <<password>>, remote_unlock(Cx0, password, kind))

RemoteLock(password, kind) ==
    Commit("remote_lock", <<password>>, remote_lock(Cx0, password, kind))

NextLock ==
    \/ \E ok \in BOOLEAN : Connect("192.168.0.10", 5007, ok)
    \/ Return
    \/ \E password \in PasswordInputs, kind \in {"ok", "nz"} : RemoteUnlock(password, kind)
    \/ \E password \in PasswordInputs, kind \in {"ok", "nz"} : RemoteLock(password, kind)

SpecLock == InitLock /\ [][NextLock]_vars

----------------------------------------------------------------------------
(* Loopback test: Type3E.loopback_test.  The echo data is the sequence of  *)
(* the code points (below 256) of its characters.                          *)

\* str.isalnum of one character below 256
IsAlnumChar(c) ==
    \/ c \in 48..57 \/ c \in 65..90 \/ c \in 97..122
    \/ c \in {170, 178, 179, 181, 185, 186, 188, 189, 190}
    \/ c \in (192..255) \ {215, 247}

\* str.isalnum: False for the empty string
isalnum(text) == text # <<>> /\ \A k \in 1..Len(text) : IsAlnumChar(text[k])

\* str.encode(): UTF-8, one byte below 128 and two bytes from 128 to 255
Utf8Encode(text) ==
    IF \A k \in 1..Len(text) : text[k] < 128 THEN text
    ELSE LET wide(k) == Cardinality({ j \in 1..k : text[j] >= 128 })
             at(i) == CHOOSE k \in 1..Len(text) : k + wide(k - 1) \in {i, i - 1}
                                                   /\ (k + wide(k - 1) = i - 1 => text[k] >= 128)
         IN  [i \in 1..(Len(text) + wide(Len(text))) |->
                  IF text[at(i)] < 128 THEN text[at(i)]
                  ELSE IF at(i) + wide(at(i) - 1) = i THEN 192 + (text[at(i)] \div 64)
                  ELSE 128 + (text[at(i)] % 64)]

\* bytes.decode() of the bytes of characters below 256; ok = FALSE stands for
\* UnicodeDecodeError
Utf8Decode(bytes) ==
    IF \A k \in 1..Len(bytes) : bytes[k] < 128 THEN [ok |-> TRUE, text |-> bytes]
    ELSE LET cont(k) == k \in 1..Len(bytes) /\ bytes[k] \in 128..191
             lead(k) == k \in 1..Len(bytes) /\ bytes[k] \in {194, 195}
             good == \A k \in 1..Len(bytes) :
                         \/ bytes[k] < 128
                         \/ lead(k) /\ cont(k + 1)
                         \/ cont(k) /\ lead(k - 1)
             starts == { k \in 1..Len(bytes) : ~cont(k) }
             nth(i) == CHOOSE k \in starts : Cardinality({ j \in starts : j < k }) = i - 1
         IN  IF ~good THEN [ok |-> FALSE, text |-> <<>>]
             ELSE [ok |-> TRUE,
                   text |-> [i \in 1..Cardinality(starts) |->
                                IF bytes[nth(i)] < 128 THEN bytes[nth(i)]
                                ELSE (bytes[nth(i)] - 192) * 64 + (bytes[nth(i) + 1] - 128)]]

\* the checks at the head of loopback_test: the ValueError raised, or "none"
check_echo_data(echo_data) ==
    IF ~isalnum(echo_data)
      THEN "ValueError: echo_data must be only alphabet or digit code"
    ELSE IF ~(1 <= Len(echo_data) /\ Len(echo_data) <= 960)
      THEN "ValueError: echo_data length must be from 1 to 960"
    ELSE "none"

\* the comparison of the lengths at the end of loopback_test
check_response_len(echo_data_len, response_len) ==
    IF response_len # echo_data_len
      THEN "ValueError: echo_data_len does not match response_len"
      ELSE "none"

\* LoopbackTest(length, data)
LoopbackResult(length, data) == [length |-> length, data |-> data]

loopback_test(cx, echo_data, out) ==
    Bind(check_echo_data(echo_data), LAMBDA e :
        IF e # "none" THEN Raise(cx, e)
        ELSE
    Bind(Utf8Encode(echo_data), LAMBDA payload :
    Bind(Exchange(cx,
             <<Cmd(LOOPBACK_TEST, 0), Enc(PyInt(Len(echo_data)), DT_SWORD, FALSE), Raw(payload)>>,
             Req(LOOPBACK_TEST, 0, <<>>, Len(echo_data), payload), out), LAMBDA c :
        IF c.raised # "none" THEN c
        ELSE
    Bind(decode_value(comm_type, Slice(c.ret.data, 0, wordsize), DT_SWORD, FALSE),
         LAMBDA response_len :
        IF ~response_len.ok THEN Raise(c, "ValueError")
        ELSE
    Bind(Utf8Decode(Slice(c.ret.data, wordsize, Len(c.ret.data))), LAMBDA response :
        IF ~response.ok THEN Raise(c, "UnicodeDecodeError")
        ELSE
    Bind(check_response_len(Len(echo_data), response_len.v), LAMBDA m :
        IF m # "none" THEN Raise(c, m)
        ELSE [c EXCEPT !.ret = LoopbackResult(response_len.v, response.text)]))))))

\* "", "7", "a", "TEST123", "a-", e-acute, and "a" repeated up to the limit
\* of the length and past it
EchoInputs ==
    { <<>>, <<55>>, <<97>>, <<84, 69, 83, 84, 49, 50, 51>>, <<97, 45>>, <<233>>,
      <<97, 233, 98>> }
        \cup { [k \in 1..n |-> 97] : n \in {959, 960, 961} }

LoopbackTest(echo_data, kind) ==
    Commit("loopback_test", <<echo_data>>, loopback_test(Cx0, echo_data, kind))

NextLoop ==
    \/ \E ok \in BOOLEAN : Connect("192.168.0.10", 5007, ok)
    \/ Return
    \/ \E echo_data \in EchoInputs, kind \in {"ok", "nz", "short", "garbled"} :
           LoopbackTest(echo_data, kind)

SpecLoop == InitLock /\ [][NextLoop]_vars

----------------------------------------------------------------------------
(* CPU introspection: Type3E.read_cpu_status, Type3E.read_switch_status    *)

CPUStatus(status, cause) == [status |-> status, cause |-> cause]

\* an except clause that lets MCError through
Caught_but_mcerror(c, unknown) ==
    IF c.raised \notin {"none", "MCError"} THEN [c EXCEPT !.raised = "none", !.ret = unknown]
    ELSE c

\* except Exception: return the Unknown result
Caught(c, unknown) ==
    IF c.raised # "none" THEN [c EXCEPT !.raised = "none", !.ret = unknown] ELSE c

\* response & mask for a 16-bit mask: the bits of the word's two's complement
Word16(v) == v % 65536

CpuStatusName(response) ==
    LET status == (Word16(response) % 16) + 32768 * (Word16(response) \div 32768)
    IN  CASE status = 0 -> "Run"
          [] status = 1 -> "Step Run"
          [] status = 2 -> "Stop"
          [] status = 3 -> "Pause"
          [] OTHER -> "None"

CpuCauseName(response) ==
    LET cause == ((Word16(response) \div 16) % 16) + 2048 * (Word16(response) \div 32768)
    IN  CASE cause = 0 -> "By Switch"
          [] cause = 1 -> "Remote Relay"
          [] cause = 2 -> "Remote Device"
          [] cause = 3 -> "By Program"
          [] cause = 4 -> "By Error"
          [] OTHER -> "None"

SwitchName(status) ==
    CASE status = 0 -> "Run"
      [] status = 1 -> "Stop"
      [] status = 2 -> "Latch Clear"
      [] OTHER -> "None"

SD203 == Dev("SD", <<2, 0, 3>>)
SD200 == Dev("SD", <<2, 0, 0>>)

read_cpu_status(cx, out) ==
    Bind(batch_read_words(cx, SD203, 1, out), LAMBDA c :
        IF c.raised # "none" THEN Caught(c, CPUStatus("Unknown", "Unknown"))
        ELSE [c EXCEPT !.ret = CPUStatus(CpuStatusName(c.ret[1]), CpuCauseName(c.ret[1]))])

read_switch_status(cx, out) ==
    Bind(batch_read_words(cx, SD200, 1, out), LAMBDA c :
        IF c.raised # "none" THEN Caught(c, "Unknown")
        ELSE [c EXCEPT !.ret = SwitchName(c.ret[1])])

ReadCpuStatus(kind) == Commit("read_cpu_status", <<>>, read_cpu_status(Cx0, kind))

ReadSwitchStatus(kind) == Commit("read_switch_status", <<>>, read_switch_status(Cx0, kind))

NextCpu ==
    \/ \E ok \in BOOLEAN : Connect("192.168.0.10", 5007, ok)
    \/ Close
    \/ Return
    \/ \E kind \in Kinds, ok \in BOOLEAN : RemoteReset(kind, ok)
    \/ \E kind \in Kinds : ReadCpuStatus(kind)
    \/ \E kind \in Kinds : ReadSwitchStatus(kind)

SpecCpu == InitLock /\ [][NextCpu]_vars

----------------------------------------------------------------------------
(* Random access: Type3E.randomread, Type3E.random_write                   *)

DevPieces(devices) == [k \in 1..Len(devices) |-> DevPiece(devices[k])]

DevRefs(devices) == [k \in 1..Len(devices) |-> DevRef(devices[k])]

\* the k-th double word of an answer that holds nw words before it
decode_dword(words, nw, k) ==
    IF comm_type # COMMTYPE_BINARY \/ nw + 2 * k > Len(words)
      THEN [ok |-> FALSE, v |-> 0]
      ELSE LET hi == words[nw + 2 * k]
           IN  [ok |-> TRUE,
                v |-> words[nw + 2 * k - 1] + 65536 * (IF hi >= 32768 THEN hi - 65536 ELSE hi)]

\* Type3E.randomread (decode = True)
randomread(cx, word_devices, dword_devices, out) ==
    Bind(Exchange(cx,
             <<Cmd(RANDOM_READ, WordSub), Enc(PyInt(Len(word_devices)), DT_BIT, FALSE),
               Enc(PyInt(Len(dword_devices)), DT_BIT, FALSE)>>
                 \o DevPieces(word_devices) \o DevPieces(dword_devices),
             Req(RANDOM_READ, WordSub, DevRefs(word_devices) \o DevRefs(dword_devices),
                 Len(word_devices) + 2 * Len(dword_devices), <<>>), out),
         LAMBDA c :
             LET w(k) == decode_word(comm_type, c.ret.data, k, TRUE)
                 d(k) == decode_dword(c.ret.data, Len(word_devices), k)
             IN  IF c.raised # "none" THEN c
                 ELSE IF \/ \E k \in 1..Len(word_devices) : ~w(k).ok
                         \/ \E k \in 1..Len(dword_devices) : ~d(k).ok
                   THEN Raise(c, "ValueError")
                 ELSE [c EXCEPT !.ret = <<[k \in 1..Len(word_devices) |-> w(k).v],
                                          [k \in 1..Len(dword_devices) |-> d(k).v]>>])

\* Type3E.random_write; the double words are encoded with mode "long"
random_write(cx, word_devices, word_values, dword_devices, dword_values, out) ==
    IF Len(word_devices) # Len(word_values) \/ Len(dword_devices) # Len(dword_values)
      THEN Raise(cx, "ValueError")
    ELSE LET each(devs, vals, mode, k) ==
                 <<DevPiece(devs[k]), Enc(PyInt(vals[k]), mode, TRUE)>>
             body(devs, vals, mode) ==
                 [k \in 1..(2 * Len(devs)) |-> each(devs, vals, mode, (k + 1) \div 2)[2 - (k % 2)]]
         IN  Bind(Exchange(cx,
                      <<Cmd(RANDOM_WRITE, WordSub), Enc(PyInt(Len(word_devices)), DT_BIT, FALSE),
                        Enc(PyInt(Len(dword_devices)), DT_BIT, FALSE)>>
                          \o body(word_devices, word_values, DT_SWORD)
                          \o body(dword_devices, dword_values, "long"),
                      Req(RANDOM_WRITE, WordSub,
                          DevRefs(word_devices) \o DevRefs(dword_devices),
                          Len(word_devices) + 2 * Len(dword_devices),
                          word_values \o dword_values), out),
                  LAMBDA c : IF c.raised # "none" THEN c ELSE [c EXCEPT !.ret = <<>>])

\* D100, M0, X1F, W20
RandomDevs == { <<>>, <<Dev("D", <<1, 0, 0>>)>>, <<Dev("M", <<0>>)>>,
                <<Dev("D", <<1, 0, 0>>), Dev("X", <<1, 15>>)>>, <<Dev("W", <<2, 0>>)>> }

RandomRead(word_devices, dword_devices, kind) ==
    Commit("randomread", <<word_devices, dword_devices>>,
           randomread(Cx0, word_devices, dword_devices, kind))

RandomWrite(word_devices, dword_devices, kind) ==
    Commit("random_write", <<word_devices, dword_devices>>,
           random_write(Cx0, word_devices, [k \in 1..Len(word_devices) |-> 7], dword_devices,
                        [k \in 1..Len(dword_devices) |-> 70000], kind))

NextRandom ==
    \/ \E ok \in BOOLEAN : Connect("192.168.0.10", 5007, ok)
    \/ Return
    \/ \E ws \in RandomDevs, ds \in RandomDevs, kind \in {"ok", "nz"} : RandomRead(ws, ds, kind)
    \/ \E ws \in RandomDevs, ds \in RandomDevs, kind \in {"ok", "nz"} : RandomWrite(ws, ds, kind)

SpecRandom == InitLock /\ [][NextRandom]_vars

----------------------------------------------------------------------------
(* The commands of every family on one client, connected or not            *)

NextSend ==
    \/ \E ok \in BOOLEAN : Connect("192.168.0.10", 5007, ok)
    \/ Close
    \/ Return
    \/ \E kind \in {"ok", "nz", "lost"}, ok \in BOOLEAN : RemoteReset(kind, ok)
    \/ \E kind \in {"ok", "nz"} : BatchReadWords(Dev("D", <<1, 0, 0>>), 2, kind)
    \/ \E kind \in {"ok", "nz"} : BatchWriteBits(Dev("M", <<1, 0>>), <<0, 1, 1>>, kind)
    \/ \E kind \in {"ok", "nz"} : ReadCpuStatus(kind)
    \/ \E kind \in {"ok", "nz"} : ReadSwitchStatus(kind)
    \/ \E kind \in {"ok", "nz"} : RemoteLock(<<97, 97, 97, 97>>, kind)
    \/ \E kind \in {"ok", "nz"} : LoopbackTest(<<84, 69, 83, 84, 49, 50, 51>>, kind)
    \/ \E kind \in {"ok", "nz"} : RandomRead(<<Dev("D", <<1, 0, 0>>)>>, <<>>, kind)

SpecSend == InitLock /\ [][NextSend]_vars

----------------------------------------------------------------------------
(* Two callers on one connected client, each running batch_read_words: its *)
(* _send and its _recv are separate steps, and the client holds no lock.   *)
(* The callers either wrap each command in one mutex of their own or do    *)
(* not.  The PLC answers the requests in the order they were written; an   *)
(* answer is tagged with the caller whose request it answers.              *)

MaxCalls == 2

Callers == {1, 2}

InitConc ==
    /\ plc_type = Q_SERIES
    /\ comm_type = COMMTYPE_BINARY
    /\ wordsize = 2
    /\ network = PyInt(0)
    /\ pc = PyInt(255)
    /\ dest_moduleio = PyInt(1023)
    /\ dest_modulesta = PyInt(0)
    /\ timer = PyInt(4)
    /\ sock_timeout = 2
    /\ is_connected = TRUE
    /\ ip = "192.168.0.10"
    /\ port = 5007
    /\ sock = NewSocket("192.168.0.10", 5007, TRUE)
    /\ rx = <<>>
    /\ last = Idle
    /\ \E mutex \in BOOLEAN :
           calc = [fn |-> "conc", mutex |-> mutex, holder |-> 0,
                   at |-> [t \in Callers |-> "idle"], calls |-> [t \in Callers |-> 0],
                   got |-> [t \in Callers |-> 0], timeouts |-> 0,
                   inflight |-> <<>>, buffer |-> <<>>]

ConcStep(c) == calc' = c /\ UNCHANGED <<cfgvars, connvars, rx, last>>

\* the caller enters batch_read_words, inside the mutex if the callers use one
Begin(t) ==
    /\ calc.at[t] = "idle" /\ calc.calls[t] < MaxCalls
    /\ calc.mutex => calc.holder = 0
    /\ ConcStep([calc EXCEPT !.at[t] = "ready", !.got[t] = 0,
                              !.holder = IF calc.mutex THEN t ELSE @])

\* self._send(send_data): the request is written to the socket
SendStep(t) ==
    /\ calc.at[t] = "ready"
    /\ is_connected
    /\ ConcStep([calc EXCEPT !.at[t] = "sent", !.inflight = Append(@, t)])

\* the PLC answers the oldest request; the answer lands in the socket buffer
Answer ==
    /\ calc.inflight # <<>>
    /\ ConcStep([calc EXCEPT !.inflight = Tail(@), !.buffer = Append(@, Head(calc.inflight))])

\* self._recv(): sock.recv(4096) takes what the buffer holds; the caller reads
\* the first answer in it
RecvStep(t) ==
    /\ calc.at[t] = "sent"
    /\ calc.buffer # <<>>
    /\ ConcStep([calc EXCEPT !.at[t] = "done", !.got[t] = Head(calc.buffer), !.buffer = <<>>])

\* self._recv() with nothing in the buffer for sock_timeout seconds
RecvTimeout(t) ==
    /\ calc.at[t] = "sent"
    /\ calc.buffer = <<>>
    /\ ConcStep([calc EXCEPT !.at[t] = "done", !.timeouts = @ + 1])

\* the command returns or raises; the caller leaves the mutex
End(t) ==
    /\ calc.at[t] = "done"
    /\ ConcStep([calc EXCEPT !.at[t] = "idle", !.calls[t] = @ + 1,
                              !.holder = IF calc.mutex THEN 0 ELSE @])

NextConc ==
    \/ \E t \in Callers : Begin(t)
    \/ \E t \in Callers : SendStep(t)
    \/ Answer
    \/ \E t \in Callers : RecvStep(t)
    \/ \E t \in Callers : RecvTimeout(t)
    \/ \E t \in Callers : End(t)

SpecConc == InitConc /\ [][NextConc]_vars

----------------------------------------------------------------------------
(* The typed tag API on hexadecimal-indexed devices *)

\* tags on the link register W, whose index is written in base 16
HexTagPool ==
    { Tag(Dev("W", <<9>>), 1, "f", ""),
      Tag(Dev("W", <<1, 10>>), 1, "f", ""),
      Tag(Dev("W", <<1, 10>>), 7, "h", ""),
      Tag(Dev("W", <<2, 0>>), 2, "i", "") }

HexTagLists == UNION { [1..n -> HexTagPool] : n \in 0..MaxTags }

NextHexTags ==
    \/ \E t \in Targets, ok \in BOOLEAN : Connect(t[1], t[2], ok)
    \/ Close
    \/ \E tags \in HexTagLists, kind \in Kinds : Read(tags, kind)
    \/ \E tags \in HexTagLists : \E o \in KindSeqs(Len(tags) + 1) : Write(tags, o)
    \/ Return

SpecHexTags == Init /\ [][NextHexTags]_vars

----------------------------------------------------------------------------
(* Properties *)

\* C1: requests and responses strictly alternate on a connection: no request
\* is written while a response to an earlier request is unread, and every
\* receive returns the response to the request sent last.
C1_StrictAlternation ==
    /\ \A k \in 1..Len(last.reqs) : last.reqs[k].unread = 0
    /\ \A k \in 1..Len(last.recvs) : last.recvs[k].behind = 0

\* C2: connect takes the client from Disconnected to Connected, close takes
\* it to Disconnected, no other command but remote_reset changes the state;
\* when remote_reset's response read fails there is one wait and exactly one
\* reconnection attempt, to the host and port of the last connect, the call
\* returning normally and Connected if it succeeds and raising and
\* Disconnected if it fails.
C2_Step ==
    (last.op = "idle" /\ last'.op # "idle") =>
        /\ (last'.op = "connect" /\ last'.raised = "none") => is_connected'
        /\ (last'.op = "close" /\ last'.raised = "none") => ~is_connected'
        /\ last'.op \notin {"connect", "close", "remote_reset"} =>
               is_connected' = is_connected
        /\ last'.op = "remote_reset" =>
               IF last'.rxerr # "none"
                 THEN /\ Len(last'.conns) = 1
                      /\ last'.conns[1].wait = 1
                      /\ <<last'.conns[1].ip, last'.conns[1].port>> = sock.peer
                      /\ sock'.peer = sock.peer
                      /\ IF last'.conns[1].ok
                           THEN is_connected' /\ sock'.state = "conn" /\ last'.raised = "none"
                           ELSE ~is_connected' /\ last'.raised # "none"
                 ELSE /\ last'.conns = <<>>
                      /\ is_connected' = is_connected

C2_ConnectionStateMachine == [][C2_Step]_vars

C2_Witness ==
    /\ last.op = "remote_reset"
    /\ last.rxerr = "timeout"
    /\ Len(last.conns) = 1
    /\ is_connected

\* C3: on a connected client the timeout set on the socket is strictly
\* greater than the protocol timer in seconds (timer quarter seconds / 4).
C3_SocketTimeoutExceedsTimer ==
    is_connected => sock.timeout * 4 > timer.v

\* C4: every command other than read_cpu_status and read_switch_status that
\* receives a response with a non-zero status word raises MCError.
C4_NonZeroStatusRaises ==
    (last.op \notin {"idle", "read_cpu_status", "read_switch_status"}
        /\ \E k \in 1..Len(last.recvs) : last.recvs[k].status # 0)
    => last.raised = "MCError"

IsBatchBitWrite(r, code, num, v) ==
    /\ r.cmd = 5121
    /\ r.sub \in {1, 3}
    /\ r.devs = <<[code |-> code, num |-> num]>>
    /\ r.n = 1
    /\ r.vals = <<v>>

\* C5: read_plc_time issues, in this order, the batch bit write SM213=1, the
\* batch word read of 8 points from SD210 and the batch bit write SM213=0,
\* each only after the previous response was received with status 0; when it
\* returns, three requests were sent and the datetime is made of the first
\* six words read.
C5_ReadPlcTimeSequence ==
    last.op = "read_plc_time" =>
        LET r == last.reqs
            v == last.recvs
        IN  /\ Len(r) <= 3
            /\ Len(r) >= 1 => IsBatchBitWrite(r[1], 145, 213, 1)
            /\ Len(r) >= 2 => /\ r[2].cmd = 1025
                              /\ r[2].sub \in {0, 2}
                              /\ r[2].devs = <<[code |-> 169, num |-> 210]>>
                              /\ r[2].n = 8
            /\ Len(r) >= 3 => IsBatchBitWrite(r[3], 145, 213, 0)
            /\ \A k \in 2..Len(r) : Len(v) >= k - 1 /\ v[k - 1].status = 0
            /\ last.raised = "none" =>
                   /\ Len(r) = 3
                   /\ Len(v) = 3
                   /\ Len(v[2].data) >= 6
                   /\ last.result = [year |-> v[2].data[1], month |-> v[2].data[2],
                                     day |-> v[2].data[3], hour |-> v[2].data[4],
                                     minute |-> v[2].data[5], second |-> v[2].data[6]]

C5_Witness ==
    /\ last.op = "read_plc_time"
    /\ last.raised = "none"
    /\ Len(last.reqs) = 3
    /\ last.result.year = 2024

\* the positions of the requests of the call that write SM210 / SD210
C6_Sm210(r) == { k \in 1..Len(r) : r[k].devs = <<[code |-> 145, num |-> 210]>> }
C6_Sd210(r) == { k \in 1..Len(r) : r[k].devs = <<[code |-> 169, num |-> 210]>> }

\* C6: set_plc_time sends the batch word write of [year, month, day, hour,
\* minute, second, weekday, 0] to SD210 before any write to SM210, then the
\* batch bit writes SM210 = 0, 1, 0 in that order and no other; a step is
\* sent only if every earlier step was answered with status 0.
C6_SetPlcTimeSequence ==
    last.op = "set_plc_time" =>
        LET r == last.reqs
            v == last.recvs
            dt == last.args
            sm == C6_Sm210(r)
            sd == C6_Sd210(r)
            strobe == <<0, 1, 0>>
        IN  /\ Cardinality(sd) <= 1
            /\ Cardinality(sm) <= 3
            /\ \A k \in sd :
                   /\ r[k].cmd = 5121
                   /\ r[k].sub \in {0, 2}
                   /\ r[k].n = 8
                   /\ r[k].vals = <<dt.year, dt.month, dt.day, dt.hour, dt.minute,
                                    dt.second, dt.weekday, 0>>
            /\ \A k \in sm : \E j \in sd : j < k
            /\ \A k \in sm :
                   IsBatchBitWrite(r[k], 145, 210, strobe[Cardinality({j \in sm : j <= k})])
            /\ \A k \in 2..Len(r) : Len(v) >= k - 1 /\ v[k - 1].status = 0
            /\ last.raised = "none" => Cardinality(sd) = 1 /\ Cardinality(sm) = 3

C6_Witness ==
    /\ last.op = "set_plc_time"
    /\ last.raised = "none"
    /\ Cardinality(C6_Sm210(last.reqs)) = 3
    /\ last.args.weekday = 6

\* the width in words of a data type, 0 for a type that does not resolve
WordsOf(type) ==
    CASE type \in {"b", "h", "H"} -> 1
      [] type \in {"i", "I", "f"} -> 2
      [] type \in {"d", "q", "Q"} -> 4
      [] OTHER -> 0

\* the device references of a tag that is k words wide at device index n
RefsOf(el, k) ==
    [j \in 1..k |-> [code |-> IF el.device.type = "D" THEN 168 ELSE 144,
                     num |-> ParseDigits(el.device.idx, 10) + j - 1]]

RECURSIVE PayloadRefs(_, _)
\* the device references of a tag list, a BIT tag taking bitWords references
PayloadRefs(tags, bitWords) ==
    IF tags = <<>> THEN <<>>
    ELSE LET el == Head(tags)
         IN  RefsOf(el, IF el.type = "b" THEN bitWords ELSE WordsOf(el.type))
             \o PayloadRefs(Tail(tags), bitWords)

\* the random-access requests of the call
Combined == SelectSeq(last.reqs, LAMBDA r : r.cmd \in {1027, 5122})
\* the batch bit requests of the call
BitRequests == SelectSeq(last.reqs, LAMBDA r : r.cmd \in {1025, 5121} /\ r.sub \in {1, 3})
\* the BIT tags of the list of the call
BitTags == SelectSeq(last.args, LAMBDA el : el.type = "b")

\* C7: a tag k words wide (k = 2 or 4) on a decimal-indexed device at index n
\* takes exactly k device references in the request of read(tags) and of
\* write(tags), the indices n, n+1, ..., n+k-1 in that order, between the
\* references of the tags before it and after it.
C7_MultiWordSplitting ==
    last.op \in {"read", "write"} =>
        \A k \in 1..Len(Combined) :
            Combined[k].devs = PayloadRefs(last.args, IF last.op = "read" THEN 1 ELSE 0)

C7_Witness ==
    /\ last.op = "write"
    /\ last.raised = "none"
    /\ \E i \in 1..Len(last.args) : last.args[i].type = "d"
    /\ \E k \in 1..Len(Combined) :
           /\ Len(Combined[k].devs) >= 4
           /\ Combined[k].devs[1].num = 98
           /\ Combined[k].devs[4].num = 101

\* C8 as stated: in read(tags) and in write(tags) a BIT tag adds nothing to
\* the word count of the request header and no device reference to the
\* random-access payload, and is handled by a separate single-device batch
\* bit request.
C8_BitTagsOutOfBand ==
    last.op \in {"read", "write"} =>
        /\ \A k \in 1..Len(Combined) :
               /\ Combined[k].devs = PayloadRefs(last.args, 0)
               /\ Combined[k].n = Len(PayloadRefs(last.args, 0))
        /\ last.raised = "none" => Len(BitRequests) = Len(BitTags)

\* C8: in write(tags) a BIT tag adds nothing to the word count of the header
\* and no device reference to the random-write payload, and is written by a
\* batch bit write of its one device; in read(tags) a BIT tag counts one
\* word, takes one device reference of the random-read payload, and no
\* other request is sent.
C8_BitTagsWriteOnly ==
    /\ last.op = "write" =>
           /\ \A k \in 1..Len(Combined) :
                  /\ Combined[k].devs = PayloadRefs(last.args, 0)
                  /\ Combined[k].n = Len(PayloadRefs(last.args, 0))
           /\ Len(BitRequests) <= Len(BitTags)
           /\ \A j \in 1..Len(BitRequests) :
                  IsBatchBitWrite(BitRequests[j], 144,
                                  ParseDigits(BitTags[j].device.idx, 10), BitTags[j].value)
           /\ last.raised = "none" => Len(BitRequests) = Len(BitTags)
    /\ last.op = "read" =>
           /\ \A k \in 1..Len(Combined) :
                  /\ Combined[k].devs = PayloadRefs(last.args, 1)
                  /\ Combined[k].n = Len(PayloadRefs(last.args, 1))
           /\ BitRequests = <<>>

C8_Witness ==
    /\ last.op = "write"
    /\ last.raised = "none"
    /\ Len(BitTags) = 1
    /\ Len(BitRequests) = 1
    /\ Len(Combined) = 1
    /\ Combined[1].n = 1

\* the positions of the tags of the call whose data type does not resolve
Unresolved == { i \in 1..Len(last.args) : WordsOf(last.args[i].type) = 0 }

\* C9: in read(tags) and write(tags) a tag whose data type does not resolve
\* adds nothing to the payload while the other tags are transmitted, and a
\* call that returns gives back a list holding that tag with the
\* DataTypeError in its error field, also when no tag of the list resolves.
C9_UnresolvedTagsReturned ==
    last.op \in {"read", "write"} =>
        /\ \A k \in 1..Len(Combined) :
               Combined[k].devs = PayloadRefs(last.args, IF last.op = "read" THEN 1 ELSE 0)
        /\ (last.raised = "none" /\ Unresolved # {}) =>
               /\ last.result.kind = "list"
               /\ \A i \in Unresolved :
                      \E j \in 1..Len(last.result.tags) :
                          last.result.tags[j] = [last.args[i] EXCEPT !.error = "DataTypeError"]

\* C10: for a list of n >= 1 values in {0,1}, the data bytes batch_write_bits
\* packs (binary: ceil(n/2) bytes, the value at even index i in bit 4 and at
\* odd index i in bit 0 of byte i div 2; ASCII: one digit character per
\* value), unpacked as batch_read_bits does with read_size n, give the list.
C10_BitPackingRoundTrip ==
    calc.fn = "bits" =>
        LET n == Len(calc.values)
        IN  /\ calc.pc # "start" =>
                   IF calc.comm = COMMTYPE_BINARY
                     THEN /\ Len(calc.data) = (n + 1) \div 2
                          /\ \A i \in 0..(n - 1) :
                                 LET byte == calc.data[(i \div 2) + 1]
                                 IN  IF i % 2 = 0 THEN (byte \div 16) % 2 = calc.values[i + 1]
                                     ELSE byte % 2 = calc.values[i + 1]
                     ELSE /\ Len(calc.data) = n
                          /\ \A i \in 1..n : calc.data[i] = 48 + calc.values[i]
            /\ calc.pc = "unpacked" => calc.read = calc.values

C10_Witness ==
    /\ calc.fn = "bits"
    /\ calc.pc = "unpacked"
    /\ calc.comm = COMMTYPE_BINARY
    /\ calc.values = <<1, 0, 1>>
    /\ calc.read = <<1, 0, 1>>

\* the integers of the domain of a byte, word or dword of the given signedness
InDomain(mode, isSigned, v) ==
    CASE mode = "b" -> IF isSigned THEN -128 <= v /\ v <= 127 ELSE 0 <= v /\ v <= 255
      [] mode = "h" -> IF isSigned THEN -32768 <= v /\ v <= 32767 ELSE 0 <= v /\ v <= 65535
      [] mode = "i" -> IF isSigned THEN TRUE ELSE 0 <= v

\* C11: for every integer in the domain of a byte, word or dword of either
\* signedness, _encode_value returns an encoding and _decode_value of that
\* encoding returns the integer, in binary mode and in ASCII mode.
C11_EncodeDecodeRoundTrip ==
    (calc.fn = "codec" /\ InDomain(calc.mode, calc.isSigned, calc.value)) =>
        /\ calc.pc # "start" => calc.enc.ok
        /\ calc.pc = "decoded" => calc.dec.ok /\ calc.dec.v = calc.value

\* C12: for every integer outside the range of the byte, word or dword of
\* the requested signedness, _encode_value raises ValueError and gives no
\* bytes: the value is never wrapped into the width.
C12_OutOfRangeRaises ==
    (calc.fn = "codec" /\ calc.pc # "start"
        /\ ~InDomain(calc.mode, calc.isSigned, calc.value)) =>
        /\ ~calc.enc.ok
        /\ calc.enc.bytes = <<>>
        /\ calc.pc # "decoded"

C12_Witness ==
    /\ calc.fn = "codec"
    /\ calc.pc = "encoded"
    /\ calc.comm = COMMTYPE_BINARY
    /\ calc.mode = "h"
    /\ ~calc.isSigned
    /\ calc.value = 65536
    /\ ~calc.enc.ok

\* the value of a field of hex text
RECURSIVE HexText(_)
HexText(cs) ==
    IF cs = <<>> THEN 0
    ELSE LET c == cs[Len(cs)]
         IN  HexText(SubSeq(cs, 1, Len(cs) - 1)) * 16 + (IF c >= 65 THEN c - 55 ELSE c - 48)

\* a frame was built, and its length field, which comes after `before` bytes
\* of header (twice as many characters in ASCII mode), holds n, the number of
\* bytes that follow it
LengthFieldIs(f, before, n) ==
    /\ f.ok
    /\ IF comm_type = COMMTYPE_BINARY
         THEN /\ f.bytes[before + 1] + 256 * f.bytes[before + 2] = n
              /\ Len(f.bytes) - (before + 2) = n
         ELSE /\ HexText(SubSeq(f.bytes, 2 * before + 1, 2 * before + 4)) = n
              /\ Len(f.bytes) - (2 * before + 4) = n

\* C13: the request frame of a payload, 3E or 4E, binary or ASCII, has a
\* length field equal to wordsize + len(payload), wordsize being 2 in binary
\* and 4 in ASCII mode, which is the number of bytes that follow the field.
C13_LengthField ==
    calc.fn = "frame" =>
        /\ wordsize = IF comm_type = COMMTYPE_BINARY THEN 2 ELSE 4
        /\ calc.pc \in {"3E", "4E"} =>
               LengthFieldIs(calc.f3, 7, wordsize + Len(calc.payload))
        /\ calc.pc = "4E" =>
               LengthFieldIs(calc.f4, 11, wordsize + Len(calc.payload))

\* C14: for every payload and configuration the 4E frame is the 3E frame
\* with the subheader 0x5400 for 0x5000 and the 2-byte serial number and 2
\* zero bytes put right after the subheader; where the 3E frame cannot be
\* built the 4E frame cannot either.
C14_Frame4EOver3E ==
    (calc.fn = "frame" /\ calc.pc = "4E") =>
        /\ calc.f4.ok = calc.f3.ok
        /\ calc.f3.ok =>
               /\ SubSeq(calc.f3.bytes, 1, 2) = <<80, 0>>
               /\ calc.f4.bytes = <<84, 0>>
                                  \o <<calc.serial.v % 256, calc.serial.v \div 256>>
                                  \o <<0, 0>>
                                  \o SubSeq(calc.f3.bytes, 3, Len(calc.f3.bytes))

C14_Witness ==
    /\ calc.fn = "frame"
    /\ calc.pc = "4E"
    /\ calc.f3.ok
    /\ calc.f4.ok
    /\ calc.serial.v = 65535
    /\ Len(calc.payload) = 3

\* the offsets of the status word and of the data for a frame type and a mode
OffsetTable(frame, comm) ==
    CASE frame = "3E" /\ comm = "binary" -> <<9, 11>>
      [] frame = "3E" /\ comm = "ascii"  -> <<18, 22>>
      [] frame = "4E" /\ comm = "binary" -> <<13, 15>>
      [] frame = "4E" /\ comm = "ascii"  -> <<26, 30>>

\* C15: whatever the command and the PLC series, the status word is read at
\* offset 9 (3E binary), 18 (3E ASCII), 13 (4E binary) or 26 (4E ASCII) of
\* the response and the data at offset 11, 22, 15 or 30.
C15_ResponseOffsets ==
    calc.fn = "resp" =>
        LET t == OffsetTable(calc.frame, comm_type)
        IN  /\ calc.pc # "start" => calc.status = [k \in 1..wordsize |-> t[1] + k - 1]
            /\ calc.pc = "data" => calc.data = [k \in 1..wordsize |-> t[2] + k - 1]

C15_Witness ==
    /\ calc.fn = "resp"
    /\ calc.pc = "data"
    /\ calc.frame = "4E"
    /\ comm_type = COMMTYPE_ASCII
    /\ plc_type = iQR_SERIES
    /\ calc.command = RANDOM_READ
    /\ calc.status[1] = 26
    /\ calc.data[1] = 30

\* the four hexadecimal digits of a status word
Hex4(n) == <<n \div 4096, (n \div 256) % 16, (n \div 16) % 16, n % 16>>

\* C16: every non-zero status word raises MCError, and the message of the
\* error is rendered: the description of the table for a code of the table
\* (0xC056: "... exceeds the maximum address."), the code as four
\* hexadecimal digits for any other code.
C16_ErrorMessages ==
    calc.fn = "err" =>
        /\ calc.pc # "start" => calc.raised = (calc.status # 0)
        /\ calc.pc = "rendered" =>
               /\ calc.message.ok
               /\ calc.message.code = Hex4(calc.status)
               /\ calc.status \in KnownCodes => calc.message.text = Description(calc.status)
               /\ calc.status = 49238 =>
                      calc.message.text
                          = "The read or write request exceeds the maximum address."

\* C17: each of the eleven device types of the iQ-R series only resolves in
\* the binary table, the ASCII table and the class table when the series is
\* iQ-R, and raises DeviceCodeError in all three for every other series.
C17_IQROnlyDevices ==
    (calc.fn = "dev" /\ calc.pc = "cls" /\ calc.name \in IQROnlyDevices) =>
        IF plc_type = iQR_SERIES
          THEN calc.bin[1] # 0 /\ calc.asc.ok /\ calc.cls # "DeviceCodeError"
          ELSE calc.bin[1] = 0 /\ ~calc.asc.ok /\ calc.cls = "DeviceCodeError"

\* the device-number field and the device-code field of a binary device
\* reference, read back
NumberField(series, bytes) ==
    LET w == IF series = iQR_SERIES THEN 4 ELSE 3
    IN  ParseDigits([k \in 1..w |-> bytes[w + 1 - k]], 256)

CodeField(series, bytes) ==
    IF series = iQR_SERIES THEN bytes[5] + 256 * bytes[6] ELSE bytes[4]

\* the device types the binary table of the series has, and those of a code
Supported(series) ==
    { t \in CommonDevices \cup IQROnlyDevices : get_binary_device_code(series, t)[1] # 0 }

TypesOfCode(series, code) ==
    { t \in Supported(series) : get_binary_device_code(series, t)[1] = code }

\* C18: for every series and every device type of its binary table, the
\* binary device encoding is invertible: distinct types have distinct codes,
\* and the reference built from the text type + index (the index written in
\* the base of the device) is made, and its code and number fields read back
\* give the same type and index.
C18_DeviceEncodingInvertible ==
    (calc.fn = "devdata" /\ calc.type \in Supported(plc_type)) =>
        /\ TypesOfCode(plc_type, get_binary_device_code(plc_type, calc.type)[1]) = {calc.type}
        /\ calc.pc = "built" =>
               /\ calc.out.ok
               /\ TypesOfCode(plc_type, CodeField(plc_type, calc.out.bytes)) = {calc.type}
               /\ NumberField(plc_type, calc.out.bytes) = calc.index

\* C18 restricted to the indexes whose text begins with a decimal digit
C18_DigitFirst ==
    (calc.fn = "devdata" /\ calc.type \in Supported(plc_type) /\ calc.text[1] < 10) =>
        /\ TypesOfCode(plc_type, get_binary_device_code(plc_type, calc.type)[1]) = {calc.type}
        /\ calc.pc = "built" =>
               /\ calc.out.ok
               /\ TypesOfCode(plc_type, CodeField(plc_type, calc.out.bytes)) = {calc.type}
               /\ NumberField(plc_type, calc.out.bytes) = calc.index

PasswordErrors ==
    {"ValueError: password must be only ascii code",
     "ValueError: password length must be from 6 to 32",
     "ValueError: password length must be 4"}

\* the passwords the manual allows for a series
PasswordAllowed(series, password) ==
    /\ \A k \in 1..Len(password) : password[k] <= 127
    /\ IF series = iQR_SERIES THEN Len(password) \in 6..32 ELSE Len(password) = 4

\* C19: remote_lock and remote_unlock accept a password if and only if it is
\* ASCII only and its length is 4 (Q, L, QnA, iQ-L) or 6 to 32 (iQ-R); a
\* rejected password raises ValueError and no request is sent, and an
\* accepted password on a connected client is sent with its length.
C19_PasswordValidation ==
    last.op \in {"remote_lock", "remote_unlock"} =>
        LET password == last.args[1]
        IN  /\ PasswordAllowed(plc_type, password) <=> last.raised \notin PasswordErrors
            /\ last.raised \in PasswordErrors => last.reqs = <<>> /\ last.recvs = <<>>
            /\ (PasswordAllowed(plc_type, password) /\ last.raised \in {"none", "MCError"}) =>
                   /\ Len(last.reqs) = 1
                   /\ last.reqs[1].cmd
                          = (IF last.op = "remote_lock" THEN REMOTE_LOCK ELSE REMOTE_UNLOCK)
                   /\ last.reqs[1].vals = password

C19_Witness ==
    /\ last.op = "remote_lock"
    /\ is_connected
    /\ plc_type = iQR_SERIES
    /\ Len(last.args[1]) = 5
    /\ last.raised = "ValueError: password length must be from 6 to 32"
    /\ last.reqs = <<>>

EchoErrors ==
    {"ValueError: echo_data must be only alphabet or digit code",
     "ValueError: echo_data length must be from 1 to 960"}

\* the length word of a loopback answer
AnswerLen(reply) == reply.data[1] + 256 * reply.data[2]

\* C20: loopback_test rejects, with nothing sent, echo data that is not
\* alphanumeric or whose length is outside 1..960; for accepted data, an
\* answer whose length word differs from the length sent raises the mismatch
\* error even when the status word is 0, and an answer of the same length is
\* returned as (length, data).
C20_LoopbackTest ==
    last.op = "loopback_test" =>
        LET echo_data == last.args[1]
            accepted == isalnum(echo_data) /\ Len(echo_data) \in 1..960
        IN  /\ accepted <=> last.raised \notin EchoErrors
            /\ last.raised \in EchoErrors => last.reqs = <<>> /\ last.recvs = <<>>
            /\ (accepted /\ last.recvs # <<>> /\ last.recvs[1].status = 0) =>
                   IF AnswerLen(last.recvs[1]) # Len(echo_data)
                     THEN last.raised = "ValueError: echo_data_len does not match response_len"
                     ELSE /\ last.raised = "none"
                          /\ last.result = LoopbackResult(Len(echo_data), echo_data)
            /\ (accepted /\ last.recvs # <<>> /\ last.recvs[1].status # 0) =>
                   last.raised = "MCError"

\* C20 for the answers whose data is the UTF-8 text of some string
C20_DecodableAnswers ==
    last.op = "loopback_test" =>
        LET echo_data == last.args[1]
            accepted == isalnum(echo_data) /\ Len(echo_data) \in 1..960
        IN  /\ accepted <=> last.raised \notin EchoErrors
            /\ last.raised \in EchoErrors => last.reqs = <<>> /\ last.recvs = <<>>
            /\ (/\ accepted /\ last.recvs # <<>> /\ last.recvs[1].status = 0
                /\ Utf8Decode(Slice(last.recvs[1].data, 2, Len(last.recvs[1].data))).ok) =>
                   IF AnswerLen(last.recvs[1]) # Len(echo_data)
                     THEN last.raised = "ValueError: echo_data_len does not match response_len"
                     ELSE /\ last.raised = "none"
                          /\ last.result = LoopbackResult(Len(echo_data), echo_data)
            /\ (accepted /\ last.recvs # <<>> /\ last.recvs[1].status # 0) =>
                   last.raised = "MCError"

\* the one read of a status call went wrong: nothing was sent, nothing was
\* received, the status word is not 0 or there is no word to decode
StatusReadFailed ==
    \/ last.reqs = <<>>
    \/ last.recvs = <<>>
    \/ last.recvs[1].status # 0
    \/ last.recvs[1].data = <<>>

\* C21: read_cpu_status and read_switch_status never raise: each does at
\* most one batch word read of one point (SD203, SD200) and returns the
\* Unknown result when that read fails for any reason, a decoded result
\* otherwise.
C21_StatusNeverRaises ==
    last.op \in {"read_cpu_status", "read_switch_status"} =>
        LET unknown == IF last.op = "read_cpu_status" THEN CPUStatus("Unknown", "Unknown")
                       ELSE "Unknown"
            number == IF last.op = "read_cpu_status" THEN 203 ELSE 200
        IN  /\ last.raised = "none"
            /\ Len(last.reqs) <= 1 /\ Len(last.recvs) <= 1
            /\ last.reqs # <<>> =>
                   /\ last.reqs[1].cmd = BATCH_READ /\ last.reqs[1].n = 1
                   /\ last.reqs[1].devs = <<[code |-> 169, num |-> number]>>
            /\ StatusReadFailed <=> last.result = unknown

C21_Witness ==
    /\ last.op = "read_cpu_status"
    /\ last.recvs # <<>>
    /\ last.recvs[1].status # 0
    /\ last.raised = "none"
    /\ last.result = CPUStatus("Unknown", "Unknown")

\* a list of devices names a device of the bit class
NamesBitDevice(devices) ==
    \E k \in 1..Len(devices) : get_device_type(plc_type, devices[k].type) = BIT_DEVICE

\* C22: randomread and random_write do not accept devices of the bit class:
\* a call that names one (M, X, Y, SM, ...) is rejected and sends no request.
C22_RandomRejectsBitDevices ==
    (/\ last.op \in {"randomread", "random_write"}
     /\ NamesBitDevice(last.args[1] \o last.args[2])) =>
        last.raised # "none" /\ last.reqs = <<>>

\* the client has no live connection: the flag is down, or its socket is one
\* that never connected or was closed
Disconnected == ~is_connected \/ sock.state # "conn"

\* a command (not connect, not close) is invoked and returns
CommandCall == last.op = "idle" /\ last'.op \notin {"idle", "connect", "close"}

CrossedAnswer == \E t \in Callers : calc.got[t] \notin {0, t}

\* the requests of both callers are outstanding at once
BothOutstanding == \A t \in Callers : calc.at[t] = "sent"

\* C24: the client does no serialization of its own (without a lock the
\* callers' send and receive steps interleave); when the callers hold one
\* mutex per client around each command, no caller reads the answer to the
\* other caller's request and the two requests are never outstanding at once.
C24_MutexSerializes ==
    (calc.fn = "conc" /\ calc.mutex) => ~CrossedAnswer /\ ~BothOutstanding

\* C24 for the runs in which no receive timed out
C24_MutexTimelyAnswers ==
    (calc.fn = "conc" /\ calc.mutex /\ calc.timeouts = 0) => ~CrossedAnswer /\ ~BothOutstanding

\* the header of a binary 3E frame carries the access options of the client
HeaderCarries(frame) ==
    /\ frame[3] = network.v
    /\ frame[4] = pc.v
    /\ frame[5] + 256 * frame[6] = dest_moduleio.v
    /\ frame[7] = dest_modulesta.v
    /\ frame[10] + 256 * frame[11] = timer.v

\* C25: after set_access_opt has set network, pc, dest_moduleio,
\* dest_modulesta or timer_sec, commands are still built and sent, and every
\* frame carries the values of the options (timer = 4 x timer_sec) in its
\* header: a batch word read on a connected binary client sends its request.
C25_OptionsCarried ==
    (/\ last.op = "batch_read_words"
     /\ comm_type = COMMTYPE_BINARY
     /\ is_connected /\ sock.state = "conn") =>
        /\ last.reqs # <<>>
        /\ HeaderCarries(last.reqs[1].frame)

\* C25 for a client whose options are the ones it was constructed with
C25_DefaultOptions ==
    (/\ last.op = "batch_read_words"
     /\ comm_type = COMMTYPE_BINARY
     /\ is_connected /\ sock.state = "conn"
     /\ \A f \in {network, pc, dest_moduleio, dest_modulesta, timer} : f.t = "int") =>
        /\ last.reqs # <<>>
        /\ HeaderCarries(last.reqs[1].frame)

\* the references of a tag k words wide counted from the tag's own device
\* number, the number its device string resolves to in a single-word access
OwnRefsOf(el, k) ==
    [j \in 1..k |-> [code |-> DevRef(el.device).code, num |-> DevRef(el.device).num + j - 1]]

RECURSIVE OwnPayloadRefs(_)
OwnPayloadRefs(tags) ==
    IF tags = <<>> THEN <<>>
    ELSE OwnRefsOf(Head(tags), WordsOf(Head(tags).type)) \o OwnPayloadRefs(Tail(tags))

\* C26 as stated: for a multi-word tag on a hexadecimal-indexed device the
\* request of read(tags) and of write(tags) refers to k numerically
\* consecutive device numbers starting at the tag's own device number (a FLOAT
\* at W9 addresses 0x9 and 0xA, a FLOAT at W1A addresses 0x1A and 0x1B).
C26_HexConsecutive ==
    last.op \in {"read", "write"} =>
        \A k \in 1..Len(Combined) : Combined[k].devs = OwnPayloadRefs(last.args)

\* C26, what the code does: the index is read as the leading run of decimal
\* digits, counted up in decimal, and each made-up name is read again in base
\* 16 (a FLOAT at W9 addresses 0x9 and 0x10, a FLOAT at W1A addresses 0x1, 0x2)
C26_DecimalCounting ==
    last.op \in {"read", "write"} =>
        \A k \in 1..Len(Combined) :
            Combined[k].devs = DevRefs(ReadDevs(last.args))

\* a step that is a call of set_access_opt which raises
OptRaises == last.op = "idle" /\ last'.op = "set_access_opt" /\ last'.raised # "none"

\* C27 as stated: whenever set_access_opt raises, none of comm_type, wordsize,
\* network, pc, dest_moduleio, dest_modulesta, timer, sock_timeout nor the
\* timeout of the socket has changed from its value before the call.
C27_AllOrNothing ==
    [][OptRaises =>
          /\ UNCHANGED <<comm_type, wordsize, network, pc, dest_moduleio, dest_modulesta,
                         timer, sock_timeout>>
          /\ sock'.timeout = sock.timeout]_vars

\* C27, what the code keeps: a call that raises leaves the timer, the socket
\* timeout setting and the timeout of the socket as they were, and a call
\* that raises CommTypeError leaves every field as it was.
C27_TimerUntouched ==
    [][OptRaises =>
          /\ UNCHANGED <<timer, sock_timeout>>
          /\ sock'.timeout = sock.timeout
          /\ last'.raised = "CommTypeError" =>
                 UNCHANGED <<comm_type, wordsize, network, pc, dest_moduleio,
                             dest_modulesta>>]_vars

\* the latch relay SM213 was set by the call: the write of 1 was sent and
\* answered with status 0
LatchSet ==
    /\ last.op = "read_plc_time"
    /\ Len(last.reqs) >= 1 /\ IsBatchBitWrite(last.reqs[1], 145, 213, 1)
    /\ Len(last.recvs) >= 1 /\ last.recvs[1].status = 0

\* C28 as stated: whenever read_plc_time has written SM213 = 1, it sends the
\* write of SM213 = 0 before it returns or raises, also when the read of SD210
\* in between fails (non-zero status, receive timeout, decode error).
C28_LatchReleased ==
    LatchSet => \E k \in 2..Len(last.reqs) : IsBatchBitWrite(last.reqs[k], 145, 213, 0)

\* C28, what the code does: the latch is released only by the calls whose
\* read of SD210 was answered with status 0
C28_ReleasedAfterGoodRead ==
    LatchSet =>
        ((\E k \in 2..Len(last.reqs) : IsBatchBitWrite(last.reqs[k], 145, 213, 0))
            => (Len(last.recvs) >= 2 /\ last.recvs[2].status = 0))

\* write(tags) raised after the combined word payload was built and sent: its
\* answer had a non-zero status or did not come in time
CombinedFailed == last.op = "write" /\ last.raised # "none" /\ Len(Combined) >= 1

\* C29 as stated: a write(tags) call that raises at the combined word payload
\* has sent no write request for a tag of the list, the batch bit writes of
\* the BIT tags included.
C29_NoPartialWrite ==
    CombinedFailed => BitRequests = <<>>

\* C29, what the code does: the batch bit write of a BIT tag is sent when the
\* loop reaches the tag, before the combined payload is complete; a call
\* that raises at the combined payload has sent the bit writes of all the BIT
\* tags of the list.
C29_BitsWrittenFirst ==
    CombinedFailed =>
        /\ Len(BitRequests) = Len(BitTags)
        /\ \A j \in 1..Len(BitRequests) :
               IsBatchBitWrite(BitRequests[j], 144,
                               ParseDigits(BitTags[j].device.idx, 10), BitTags[j].value)
        /\ last.reqs[Len(last.reqs)] = Combined[1]

\* C30 as stated: in every reachable state the connected flag is true only if
\* the current socket of the client is one on which a connect succeeded and
\* which has not been closed since; a failed connect never leaves the client
\* marked Connected with an unconnected socket.
C30_FlagMatchesSocket ==
    is_connected => sock.state = "conn"

\* C30, what the code keeps: a client marked Connected has a socket that was
\* not closed, and a call of connect that succeeds, or a remote_reset whose
\* reconnection is tried, leaves the flag equal to the state of the socket.
C30_FlagImpliesOpenSocket ==
    /\ is_connected => sock.state \in {"conn", "fresh"}
    /\ ((last.op = "connect" /\ last.raised = "none")
            \/ (last.op = "remote_reset" /\ last.conns # <<>>))
       => (is_connected <=> sock.state = "conn")
====
